---- MODULE Spec2Model ----
(***************************************************************************)
(* finance-tracker: the deduplicating, balance-maintaining transaction     *)
(* store (src/src/storage/database.py), the sync run that feeds it         *)
(* (src/src/services/sync_manager.py, src/src/adapters/qqmail_adapter.py)  *)
(* and the record identity (src/src/models/transaction.py).                *)
(*                                                                         *)
(* Representation.                                                         *)
(*   Optional values: None is << >>, a present value v is << v >>.         *)
(*   Money: integers (the unit is irrelevant to the store, which only      *)
(*   adds, subtracts and replaces).  SQLite's NUMERIC affinity and         *)
(*   Decimal(str(.)) give back the number that was written for every       *)
(*   value of at most 15 significant digits, so a stored amount is the     *)
(*   integer itself.                                                       *)
(*   Time: integers.  The store compares isoformat() strings of naive      *)
(*   datetimes, whose lexicographic order is the chronological order.      *)
(*   transaction_id: the tuple of the six hashed values (the sha256        *)
(*   prefix is taken to be injective on them).                             *)
(***************************************************************************)
EXTENDS Integers, Sequences, FiniteSets, TLC

VARIABLES
    transactions,   \* table transactions: rows in AUTOINCREMENT (insert) order
    accounts,       \* table accounts: account_id -> row
    ret,            \* what the last save_transaction call of Spec returned
    savedLog,       \* history: the records whose INSERT committed, in commit order
    mailbox,        \* the records the mail transport yields, in transport order
    now,            \* the wall clock
    cfgAccount,     \* sources.<source>.account_id of the configuration (optional)
    run,            \* the sync run in progress / the last one that ended
    pending,        \* history: in-window records an interrupted run had not reached
    procs,          \* concurrent sync workers (SpecRace)
    _running,       \* Scheduler._running
    task,           \* the ScheduledTask of the scheduler
    threads,        \* the threads that run Scheduler.start
    given,          \* the arguments of a pure function under study
    result          \* what the function returned for them (None before the call)

vars == <<transactions, accounts, ret, savedLog, mailbox, now, cfgAccount, run, pending, procs,
          _running, task, threads, given, result>>

storeVars == <<transactions, accounts, savedLog>>
syncVars == <<mailbox, now, cfgAccount, run, pending>>
schedVars == <<_running, task, threads>>
pureVars == <<given, result>>

None == << >>
Some(v) == << v >>

(***************************************************************************)
(* Bounds                                                                  *)
(***************************************************************************)
MaxRows == 3        \* rows a behaviour of Spec inserts
MaxTime == 2        \* SpecSync: the clock and the mails' transaction times are 1..MaxTime
MaxMail == 2        \* SpecSync: messages in the mailbox
MaxCalls == 1       \* SpecRace: save_transaction calls of each worker
MaxLines == 2       \* SpecParse: lines of a message body

(***************************************************************************)
(* Records (RawTransaction)                                                *)
(***************************************************************************)
AccountIds == {"8551", "6226"}
StoreTimes == {1, 2}
Times == 1 .. MaxTime

DebitTypes == {"consumption", "transfer_out", "fee"}
CreditTypes == {"income", "transfer_in", "refund", "interest", "dividend"}
TransactionType == DebitTypes \cup CreditTypes \cup {"other"}

\* <<transaction_type, amount, balance, account_name, account_type>>
Kinds ==
    { <<"consumption", 3, None, None, None>>,
      <<"income", 10, None, Some("card"), Some("debit")>>,
      <<"other", 3, None, None, None>>,
      <<"consumption", 3, Some(100), None, None>>,
      <<"income", 10, Some(0), None, None>> }

RawTransaction(acct, t, k) ==
    [ source_type |-> "cmb_email",
      source_account |-> "test@example.com",
      transaction_time |-> t,
      account_id |-> acct,
      transaction_type |-> k[1],
      amount |-> k[2],
      balance |-> k[3],
      account_name |-> k[4],
      account_type |-> k[5],
      counterparty |-> None ]

StoreRecords == { RawTransaction("8551", t, k) : t \in StoreTimes, k \in Kinds }

generate_transaction_id(r) ==
    << r.source_type, r.source_account, r.transaction_time, r.account_id, r.amount,
       IF r.counterparty = None THEN "unknown" ELSE r.counterparty[1] >>

(***************************************************************************)
(* Table transactions                                                      *)
(***************************************************************************)
\* Python truthiness of an Optional[Decimal]: None and Decimal(0) are falsy.
Truthy(b) == b # None /\ b[1] # 0

_transaction_to_db_dict(r, transaction_id) ==
    [ transaction_id |-> transaction_id,
      transaction_time |-> r.transaction_time,
      account_id |-> r.account_id,
      transaction_type |-> r.transaction_type,
      amount |-> r.amount,
      balance |-> IF Truthy(r.balance) THEN r.balance ELSE None ]

\* Mutant: the pre-check looks the record up under a key no row carries.
SelectByRawId(txs, tid) ==
    { i \in 1 .. Len(txs) : txs[i].transaction_id = << tid >> }

\* SELECT id FROM transactions WHERE transaction_id = ?
SelectByTransactionId(txs, tid) ==
    { i \in 1 .. Len(txs) : txs[i].transaction_id = tid }

(***************************************************************************)
(* Table accounts                                                          *)
(***************************************************************************)
\* Mutant: the hint replaces the stored value whenever the hint is not NULL.
CoalesceHintFirst(a, b) == IF b # None THEN b ELSE a

\* COALESCE(a, b)
Coalesce(a, b) == IF a # None THEN a ELSE b

\* INSERT OR IGNORE INTO accounts (account_id, account_name, account_type)
InsertOrIgnoreAccount(accts, account_id, account_name, account_type) ==
    IF account_id \in DOMAIN accts
    THEN accts
    ELSE accts @@ (account_id :>
            [ account_name |-> account_name,
              account_type |-> account_type,
              last_sync_time |-> None,
              current_balance |-> None ])

_ensure_account(accts, account_id, account_name, account_type) ==
    LET a1 == InsertOrIgnoreAccount(accts, account_id, account_name, account_type)
    IN  [a1 EXCEPT ![account_id].account_name = Coalesce(@, account_name),
                   ![account_id].account_type = Coalesce(@, account_type)]

\* Mutant: the UPDATE without "AND (last_sync_time IS NULL OR last_sync_time < ?)".
update_account_last_sync_time_unguarded(accts, account_id, last_sync_time, account_name, account_type) ==
    LET a1 == InsertOrIgnoreAccount(accts, account_id, account_name, account_type)
    IN  [a1 EXCEPT ![account_id].last_sync_time = Some(last_sync_time),
                   ![account_id].account_name = Coalesce(@, account_name),
                   ![account_id].account_type = Coalesce(@, account_type)]

\* database.py 494-529.  The UPDATE compares isoformat() strings; the parser and
\* datetime.now() make naive datetimes only, whose ISO strings order as the
\* datetimes do, so the comparison is the one on times.
update_account_last_sync_time(accts, account_id, last_sync_time, account_name, account_type) ==
    LET a1 == InsertOrIgnoreAccount(accts, account_id, account_name, account_type)
    IN  IF a1[account_id].last_sync_time = None
           \/ a1[account_id].last_sync_time[1] < last_sync_time
        THEN [a1 EXCEPT ![account_id].last_sync_time = Some(last_sync_time),
                        ![account_id].account_name = Coalesce(@, account_name),
                        ![account_id].account_type = Coalesce(@, account_type)]
        ELSE a1

update_account_current_balance(accts, account_id, current_balance, account_name, account_type) ==
    LET a1 == InsertOrIgnoreAccount(accts, account_id, account_name, account_type)
    IN  [a1 EXCEPT ![account_id].current_balance = Some(current_balance),
                   ![account_id].account_name = Coalesce(@, account_name),
                   ![account_id].account_type = Coalesce(@, account_type)]

\* Mutant: refund and fee change sides.
_infer_balance_delta_swapped(r) ==
    IF r.transaction_type \in {"consumption", "transfer_out", "refund"} THEN Some(0 - r.amount)
    ELSE IF r.transaction_type \in {"income", "transfer_in", "fee", "interest", "dividend"}
         THEN Some(r.amount)
    ELSE None

\* Mutant: a type outside both sets is taken as a debit.
_infer_balance_delta_other_debit(r) ==
    IF r.transaction_type \in CreditTypes THEN Some(r.amount) ELSE Some(0 - r.amount)

\* database.py 598-613
_infer_balance_delta(r) ==
    IF r.transaction_type \in DebitTypes THEN Some(0 - r.amount)
    ELSE IF r.transaction_type \in CreditTypes THEN Some(r.amount)
    ELSE None

\* SELECT current_balance FROM accounts WHERE account_id = ?  (0 when no row or NULL)
ReadCurrentBalance(accts, account_id) ==
    IF account_id \in DOMAIN accts /\ accts[account_id].current_balance # None
    THEN accts[account_id].current_balance[1]
    ELSE 0

\* Mutant: "if transaction.balance:" in place of "is not None" (a zero balance is falsy).
_sync_current_balance_truthy(accts, r) ==
    IF Truthy(r.balance)
    THEN update_account_current_balance(
             accts, r.account_id, r.balance[1], r.account_name, r.account_type)
    ELSE LET delta == _infer_balance_delta(r)
         IN  IF delta = None
             THEN accts
             ELSE update_account_current_balance(
                      accts, r.account_id,
                      ReadCurrentBalance(accts, r.account_id) + delta[1],
                      r.account_name, r.account_type)

_sync_current_balance(accts, r) ==
    IF r.balance # None
    THEN update_account_current_balance(
             accts, r.account_id, r.balance[1], r.account_name, r.account_type)
    ELSE LET delta == _infer_balance_delta(r)
         IN  IF delta = None
             THEN accts
             ELSE update_account_current_balance(
                      accts, r.account_id,
                      ReadCurrentBalance(accts, r.account_id) + delta[1],
                      r.account_name, r.account_type)

(***************************************************************************)
(* save_transaction, run by one caller at a time.                          *)
(*                                                                         *)
(* Every helper opens its own connection and commits on it, so the call    *)
(* is a chain of four committed transactions:                              *)
(*   _ensure_account; INSERT; update_account_last_sync_time;               *)
(*   _sync_current_balance.                                                *)
(* A storage exception (sqlite3.OperationalError: disk I/O, database       *)
(* locked) may be raised by any of them; `fail` names the statement that   *)
(* raises, "none" when none does.  What was committed before it stays      *)
(* (conn.rollback() of the outer connection undoes nothing committed), and *)
(* the handler at line 367 turns it into (False, "error: ...").            *)
(* The pre-check SELECT itself is taken not to fail: the failures the      *)
(* store's contract speaks of are those after the duplicate pre-check.     *)
(***************************************************************************)
FailPoints == {"none", "ensure_account", "insert", "update_last_sync", "sync_balance"}

\* Lines 335-362: the call once the pre-check has found no row.
SaveNew(txs, accts, log, r, fail) ==
    LET transaction_id == generate_transaction_id(r)
        a1 == _ensure_account(accts, r.account_id, r.account_name, r.account_type)
        t2 == Append(txs, _transaction_to_db_dict(r, transaction_id))
        a3 == update_account_last_sync_time(
                  a1, r.account_id, r.transaction_time, r.account_name, r.account_type)
        a4 == _sync_current_balance(a3, r)
    IN  IF fail = "ensure_account"
        THEN [transactions |-> txs, accounts |-> accts, log |-> log,
              ret |-> <<FALSE, "error">>]
        ELSE IF fail = "insert"
        THEN [transactions |-> txs, accounts |-> a1, log |-> log,
              ret |-> <<FALSE, "error">>]
        ELSE IF fail = "update_last_sync"
        THEN [transactions |-> t2, accounts |-> a1, log |-> Append(log, r),
              ret |-> <<FALSE, "error">>]
        ELSE IF fail = "sync_balance"
        THEN [transactions |-> t2, accounts |-> a3, log |-> Append(log, r),
              ret |-> <<FALSE, "error">>]
        ELSE [transactions |-> t2, accounts |-> a4, log |-> Append(log, r),
              ret |-> <<TRUE, "saved">>]

\* Mutant: _ensure_account runs before the pre-check.
SaveOutcomeEnsureFirst(txs, accts, log, r, fail) ==
    IF SelectByTransactionId(txs, generate_transaction_id(r)) # {}
    THEN [transactions |-> txs,
          accounts |-> _ensure_account(accts, r.account_id, r.account_name, r.account_type),
          log |-> log,
          ret |-> <<FALSE, "duplicate">>]
    ELSE SaveNew(txs, accts, log, r, fail)

SaveOutcome(txs, accts, log, r, fail) ==
    IF SelectByTransactionId(txs, generate_transaction_id(r)) # {}
    THEN [transactions |-> txs, accounts |-> accts, log |-> log,
          ret |-> <<FALSE, "duplicate">>]
    ELSE SaveNew(txs, accts, log, r, fail)

save_transaction(r, fail) ==
    LET out == SaveOutcome(transactions, accounts, savedLog, r, fail)
    IN  /\ Len(out.transactions) <= MaxRows
        /\ transactions' = out.transactions
        /\ accounts' = out.accounts
        /\ savedLog' = out.log
        /\ ret' = out.ret
        /\ UNCHANGED <<syncVars, procs, schedVars, pureVars>>

\* No sync run has been started.
NoRun ==
    [ phase |-> "idle", dry_run |-> FALSE, days |-> 0, start_time |-> 0, end_time |-> 0,
      idx |-> 0, new |-> 0, duplicate |-> 0, errors |-> << >>, raised |-> None ]

\* scheduler.py 31-34 and 62-67: a scheduler that has not been started.
NoTask ==
    [ is_running |-> FALSE, last_run |-> None, next_run |-> None, run_count |-> 0,
      interval_minutes |-> 0 ]

SchedIdle ==
    /\ _running = FALSE
    /\ task = NoTask
    /\ threads = << >>

PureIdle ==
    /\ given = None
    /\ result = None

(***************************************************************************)
(* Specification of the store under one caller                             *)
(***************************************************************************)
Init ==
    /\ transactions = << >>
    /\ accounts = << >>
    /\ ret = None
    /\ savedLog = << >>
    /\ mailbox = << >>
    /\ now = 0
    /\ cfgAccount = None
    /\ run = NoRun
    /\ pending = {}
    /\ procs = << >>
    /\ SchedIdle
    /\ PureIdle

Next ==
    \E r \in StoreRecords, fail \in FailPoints : save_transaction(r, fail)

Spec == Init /\ [][Next]_vars

\* The store when no storage failure occurs.
NextNoFailure ==
    \E r \in StoreRecords : save_transaction(r, "none")

SpecNoFailure == Init /\ [][NextNoFailure]_vars

(***************************************************************************)
(* The sync run: SyncManager._sync_single over                             *)
(* QQMailIMAPAdapter.fetch_transactions.                                   *)
(*                                                                         *)
(* The mailbox holds, in the order the IMAP search lists them, the records *)
(* the parser makes of the messages; a message may be there twice          *)
(* (re-sent mail).  The IMAP SINCE/BEFORE search is by day of arrival and  *)
(* a message arrives no earlier than its transaction, so what reaches the  *)
(* store is decided by the two filters of lines 242-248.                   *)
(* fetch_transactions is a generator: each record is saved before the next *)
(* message is fetched, and the run can end between two records (the        *)
(* process is stopped, or the connection drops and ConnectionError leaves  *)
(* _sync_single through its finally).  SpecSync takes the store not to     *)
(* fail during a run; storage failures are the subject of Spec.            *)
(***************************************************************************)
DefaultDays == 7

Days == {1, DefaultDays}

SyncKinds == { <<"consumption", 3, None, None, None>> }

SyncRecords == { RawTransaction(a, t, k) : a \in AccountIds, t \in Times, k \in SyncKinds }

Mailboxes == UNION { [1 .. n -> SyncRecords] : n \in 0 .. MaxMail }

get_last_sync_time(accts, account_id) ==
    IF account_id \in DOMAIN accts THEN accts[account_id].last_sync_time ELSE None

get_single_account_last_sync_time(accts) ==
    IF Cardinality(DOMAIN accts) # 1
    THEN None
    ELSE accts[CHOOSE a \in DOMAIN accts : TRUE].last_sync_time

\* Lines 68-80: the lower bound of the fetch window.
WindowStart(accts, account_id, end_time, days) ==
    LET last_sync == IF account_id # None
                     THEN get_last_sync_time(accts, account_id[1])
                     ELSE get_single_account_last_sync_time(accts)
    IN  IF last_sync # None THEN last_sync[1] ELSE end_time - days

\* Mutant: the time filter drops a record dated exactly start_time.
InWindowExclusive(r, start_time, end_time) ==
    ~(r.transaction_time <= start_time \/ r.transaction_time > end_time)

\* qqmail_adapter.py 246-248
InWindow(r, start_time, end_time) ==
    ~(r.transaction_time < start_time \/ r.transaction_time > end_time)

\* qqmail_adapter.py 242-244
AccountFilter(r, account_filter) ==
    ~(account_filter # None /\ r.account_id # account_filter[1])

Yielded(r, account_filter, start_time, end_time) ==
    AccountFilter(r, account_filter) /\ InWindow(r, start_time, end_time)

\* What can go wrong while one record is handled: a failure inside
\* save_transaction's own try (FailPoints), save_transaction raising before
\* it (database.py 321-325: the connection cannot be opened), and
\* update_account_last_sync_time raising at lines 112-117.
SyncFailPoints == FailPoints \cup {"save_raises", "duplicate_update_last_sync"}

\* Mutant: a dry run saves the record before it counts it.
SyncOneDrySaves(txs, accts, log, rn, r, fail) ==
    LET out == SaveOutcome(txs, accts, log, r, IF fail \in FailPoints THEN fail ELSE "none")
        next == [rn EXCEPT !.idx = @ + 1]
    IN  IF rn.dry_run
        THEN [transactions |-> out.transactions, accounts |-> out.accounts,
              log |-> out.log, ret |-> None,
              run |-> [next EXCEPT !.new = @ + 1]]
        ELSE IF fail = "save_raises"
        THEN [transactions |-> txs, accounts |-> accts, log |-> log, ret |-> None,
              run |-> [next EXCEPT !.errors = Append(@, "error")]]
        ELSE IF out.ret[1]
        THEN [transactions |-> out.transactions, accounts |-> out.accounts, log |-> out.log,
              ret |-> out.ret, run |-> [next EXCEPT !.new = @ + 1]]
        ELSE IF out.ret[2] = "duplicate"
        THEN IF fail = "duplicate_update_last_sync"
             THEN [transactions |-> out.transactions, accounts |-> out.accounts,
                   log |-> out.log, ret |-> out.ret,
                   run |-> [next EXCEPT !.duplicate = @ + 1,
                                        !.errors = Append(@, "error")]]
             ELSE [transactions |-> out.transactions,
                   accounts |-> update_account_last_sync_time(
                                    out.accounts, r.account_id, r.transaction_time,
                                    r.account_name, r.account_type),
                   log |-> out.log, ret |-> out.ret,
                   run |-> [next EXCEPT !.duplicate = @ + 1]]
        ELSE [transactions |-> out.transactions, accounts |-> out.accounts, log |-> out.log,
              ret |-> out.ret, run |-> [next EXCEPT !.errors = Append(@, out.ret[2])]]

\* Lines 94-121: what the loop body does with one yielded record.
SyncOne(txs, accts, log, rn, r, fail) ==
    LET out == SaveOutcome(txs, accts, log, r, IF fail \in FailPoints THEN fail ELSE "none")
        next == [rn EXCEPT !.idx = @ + 1]
    IN  IF rn.dry_run
        THEN [transactions |-> txs, accounts |-> accts, log |-> log, ret |-> None,
              run |-> [next EXCEPT !.new = @ + 1]]
        ELSE IF fail = "save_raises"
        THEN [transactions |-> txs, accounts |-> accts, log |-> log, ret |-> None,
              run |-> [next EXCEPT !.errors = Append(@, "error")]]
        ELSE IF out.ret[1]
        THEN [transactions |-> out.transactions, accounts |-> out.accounts, log |-> out.log,
              ret |-> out.ret, run |-> [next EXCEPT !.new = @ + 1]]
        ELSE IF out.ret[2] = "duplicate"
        THEN IF fail = "duplicate_update_last_sync"
             THEN [transactions |-> out.transactions, accounts |-> out.accounts,
                   log |-> out.log, ret |-> out.ret,
                   run |-> [next EXCEPT !.duplicate = @ + 1,
                                        !.errors = Append(@, "error")]]
             ELSE [transactions |-> out.transactions,
                   accounts |-> update_account_last_sync_time(
                                    out.accounts, r.account_id, r.transaction_time,
                                    r.account_name, r.account_type),
                   log |-> out.log, ret |-> out.ret,
                   run |-> [next EXCEPT !.duplicate = @ + 1]]
        ELSE [transactions |-> out.transactions, accounts |-> out.accounts, log |-> out.log,
              ret |-> out.ret, run |-> [next EXCEPT !.errors = Append(@, out.ret[2])]]

SyncStart(days, dry_run) ==
    /\ run.phase # "running"
    /\ run' = [ phase |-> "running", dry_run |-> dry_run, days |-> days,
                start_time |-> WindowStart(accounts, cfgAccount, now, days),
                end_time |-> now,
                idx |-> 1, new |-> 0, duplicate |-> 0, errors |-> << >>, raised |-> None ]
    /\ UNCHANGED <<storeVars, ret, mailbox, now, cfgAccount, pending, procs, schedVars, pureVars>>

SyncStep(fail) ==
    /\ run.phase = "running"
    /\ run.idx <= Len(mailbox)
    /\ LET r == mailbox[run.idx]
       IN  IF Yielded(r, cfgAccount, run.start_time, run.end_time)
           THEN LET one == SyncOne(transactions, accounts, savedLog, run, r, fail)
                IN  /\ transactions' = one.transactions
                    /\ accounts' = one.accounts
                    /\ savedLog' = one.log
                    /\ ret' = one.ret
                    /\ run' = one.run
           ELSE /\ run' = [run EXCEPT !.idx = @ + 1]
                /\ UNCHANGED <<storeVars, ret>>
    /\ UNCHANGED <<mailbox, now, cfgAccount, pending, procs, schedVars, pureVars>>

SyncFinish ==
    /\ run.phase = "running"
    /\ run.idx > Len(mailbox)
    /\ run' = [run EXCEPT !.phase = "done"]
    /\ UNCHANGED <<storeVars, ret, mailbox, now, cfgAccount, pending, procs, schedVars, pureVars>>

\* The run ends between two records; what it had not reached stays unprocessed.
SyncInterrupt ==
    /\ run.phase = "running"
    /\ run' = [run EXCEPT !.phase = "interrupted"]
    /\ pending' =
          IF run.dry_run
          THEN pending
          ELSE pending \cup
                 { mailbox[i] : i \in { j \in run.idx .. Len(mailbox) :
                     Yielded(mailbox[j], cfgAccount, run.start_time, run.end_time) } }
    /\ UNCHANGED <<storeVars, ret, mailbox, now, cfgAccount, procs, schedVars, pureVars>>

\* datetime.now() is read once, when a run starts.
Tick ==
    /\ run.phase # "running"
    /\ now < MaxTime
    /\ now' = now + 1
    /\ UNCHANGED <<storeVars, ret, mailbox, cfgAccount, run, pending, procs, schedVars, pureVars>>

InitSync ==
    /\ transactions = << >>
    /\ accounts = << >>
    /\ ret = None
    /\ savedLog = << >>
    /\ mailbox \in Mailboxes
    /\ now = 1
    /\ cfgAccount \in {None} \cup { Some(a) : a \in AccountIds }
    /\ run = NoRun
    /\ pending = {}
    /\ procs = << >>
    /\ SchedIdle
    /\ PureIdle

NextSync ==
    \/ \E days \in Days, dry_run \in BOOLEAN : SyncStart(days, dry_run)
    \/ SyncStep("none")
    \/ SyncFinish
    \/ SyncInterrupt
    \/ Tick

SpecSync == InitSync /\ [][NextSync]_vars

(***************************************************************************)
(* The sync run when the store and the mailbox login can fail.  One        *)
(* account is configured and the mailbox holds its notifications only, so  *)
(* that every failure can be injected at every record.                     *)
(***************************************************************************)
\* adapters/base.py 135-156: the exceptions of a data source, by class and
\* by the retryable flag their constructors set.
AuthenticationError == [type |-> "AuthenticationError", retryable |-> FALSE]

ConnectionError == [type |-> "ConnectionError", retryable |-> TRUE]

\* What mail.login can do at qqmail_adapter.py 103-107: succeed, return a
\* status other than OK, raise imaplib's error for a NO response, or never
\* get an answer from the server.
LoginOutcomes == {"OK", "status_not_ok", "login_raises", "unreachable"}

RejectedLogins == {"status_not_ok", "login_raises"}

\* qqmail_adapter.py 92-124: the exception _connect raises, if any.
_connect(login) ==
    CASE login = "OK" -> None
      [] login = "status_not_ok" -> Some(AuthenticationError)
      [] OTHER -> Some(ConnectionError)

\* qqmail_adapter.py 194-265: whatever is raised inside the try, _connect's
\* exception included, leaves fetch_transactions as a new ConnectionError.
fetch_transactions_raises(login) ==
    IF _connect(login) = None THEN None ELSE Some(ConnectionError)

\* sync_manager.py 87-124: the generator connects when the loop asks for
\* its first record; an exception leaves _sync_single through the finally.
SyncConnectFails(login) ==
    /\ run.phase = "running"
    /\ run.idx = 1
    /\ fetch_transactions_raises(login) # None
    /\ run' = [run EXCEPT !.phase = "failed", !.raised = fetch_transactions_raises(login)]
    /\ UNCHANGED <<storeVars, ret, mailbox, now, cfgAccount, pending, procs, schedVars, pureVars>>

FaultyMailboxes ==
    UNION { [1 .. n -> { r \in SyncRecords : r.account_id = "8551" }] : n \in 0 .. MaxMail }

InitSyncFaulty ==
    /\ transactions = << >>
    /\ accounts = << >>
    /\ ret = None
    /\ savedLog = << >>
    /\ mailbox \in FaultyMailboxes
    /\ now = 1
    /\ cfgAccount = Some("8551")
    /\ run = NoRun
    /\ pending = {}
    /\ procs = << >>
    /\ SchedIdle
    /\ PureIdle

NextSyncFaulty ==
    \/ \E dry_run \in BOOLEAN : SyncStart(DefaultDays, dry_run)
    \/ \E fail \in SyncFailPoints : SyncStep(fail)
    \/ \E login \in LoginOutcomes : SyncConnectFails(login)
    \/ SyncFinish
    \/ Tick

SpecSyncFaulty == InitSyncFaulty /\ [][NextSyncFaulty]_vars

(***************************************************************************)
(* Two sync workers on one database file (the scheduler's background run   *)
(* and a manual run): each statement group that commits on its own         *)
(* connection is one atomic step, and the steps of the two save_transaction*)
(* calls interleave freely.                                                *)
(***************************************************************************)
ProcIds == {"scheduled", "manual"}

RaceKinds ==
    { <<"consumption", 3, None, None, None>>,
      <<"income", 10, None, None, None>>,
      <<"consumption", 3, Some(100), None, None>> }

RaceRecords == { RawTransaction("8551", 1, k) : k \in RaceKinds }

IdleProc ==
    [ pc |-> "idle", tx |-> None, current |-> 0, ret |-> None, exc |-> None,
      calls |-> 0, new |-> 0, duplicate |-> 0, errors |-> << >> ]

\* sync_manager.py 106: the loop body calls save_transaction(transaction).
Call(p, r) ==
    /\ procs[p].pc = "idle"
    /\ procs[p].calls < MaxCalls
    /\ procs' = [procs EXCEPT ![p].pc = "select", ![p].tx = Some(r), ![p].ret = None,
                              ![p].exc = None, ![p].calls = @ + 1]
    /\ UNCHANGED <<storeVars, ret, syncVars, schedVars, pureVars>>

\* database.py 328-333
Precheck(p) ==
    /\ procs[p].pc = "select"
    /\ procs' =
          IF SelectByTransactionId(transactions, generate_transaction_id(procs[p].tx[1])) # {}
          THEN [procs EXCEPT ![p].pc = "returned", ![p].ret = <<FALSE, "duplicate">>]
          ELSE [procs EXCEPT ![p].pc = "ensure_account"]
    /\ UNCHANGED <<storeVars, ret, syncVars, schedVars, pureVars>>

\* database.py 335-339
EnsureAccount(p) ==
    /\ procs[p].pc = "ensure_account"
    /\ LET r == procs[p].tx[1]
       IN  accounts' = _ensure_account(accounts, r.account_id, r.account_name, r.account_type)
    /\ procs' = [procs EXCEPT ![p].pc = "insert"]
    /\ UNCHANGED <<transactions, savedLog, ret, syncVars, schedVars, pureVars>>

\* database.py 349-354, and 364-366 when transaction_id UNIQUE is violated
Insert(p) ==
    /\ procs[p].pc = "insert"
    /\ LET r == procs[p].tx[1]
           transaction_id == generate_transaction_id(r)
       IN  IF SelectByTransactionId(transactions, transaction_id) # {}
           THEN /\ procs' = [procs EXCEPT ![p].pc = "returned",
                                          ![p].exc = Some("IntegrityError"),
                                          ![p].ret = <<FALSE, "integrity_error">>]
                /\ UNCHANGED <<transactions, savedLog>>
           ELSE /\ transactions' = Append(transactions, _transaction_to_db_dict(r, transaction_id))
                /\ savedLog' = Append(savedLog, r)
                /\ procs' = [procs EXCEPT ![p].pc = "update_last_sync"]
    /\ UNCHANGED <<accounts, ret, syncVars, schedVars, pureVars>>

\* database.py 355-360
UpdateLastSync(p) ==
    /\ procs[p].pc = "update_last_sync"
    /\ LET r == procs[p].tx[1]
       IN  accounts' = update_account_last_sync_time(
                           accounts, r.account_id, r.transaction_time,
                           r.account_name, r.account_type)
    /\ procs' = [procs EXCEPT ![p].pc = "sync_balance"]
    /\ UNCHANGED <<transactions, savedLog, ret, syncVars, schedVars, pureVars>>

\* database.py 567-588: the explicit balance is written at once; otherwise the
\* current balance is read on one connection, to be written back on another.
SyncBalance(p) ==
    /\ procs[p].pc = "sync_balance"
    /\ LET r == procs[p].tx[1]
       IN  IF r.balance # None
           THEN /\ accounts' = update_account_current_balance(
                                   accounts, r.account_id, r.balance[1],
                                   r.account_name, r.account_type)
                /\ procs' = [procs EXCEPT ![p].pc = "returned", ![p].ret = <<TRUE, "saved">>]
           ELSE IF _infer_balance_delta(r) = None
           THEN /\ procs' = [procs EXCEPT ![p].pc = "returned", ![p].ret = <<TRUE, "saved">>]
                /\ UNCHANGED accounts
           ELSE /\ procs' = [procs EXCEPT ![p].pc = "write_balance",
                                          ![p].current = ReadCurrentBalance(accounts, r.account_id)]
                /\ UNCHANGED accounts
    /\ UNCHANGED <<transactions, savedLog, ret, syncVars, schedVars, pureVars>>

\* database.py 590-596
WriteBalance(p) ==
    /\ procs[p].pc = "write_balance"
    /\ LET r == procs[p].tx[1]
       IN  accounts' = update_account_current_balance(
                           accounts, r.account_id,
                           procs[p].current + _infer_balance_delta(r)[1],
                           r.account_name, r.account_type)
    /\ procs' = [procs EXCEPT ![p].pc = "returned", ![p].ret = <<TRUE, "saved">>]
    /\ UNCHANGED <<transactions, savedLog, ret, syncVars, schedVars, pureVars>>

\* sync_manager.py 107-119: the run counts what save_transaction returned.
Tally(p) ==
    /\ procs[p].pc = "returned"
    /\ LET r == procs[p].tx[1]
       IN  IF procs[p].ret[1]
           THEN /\ procs' = [procs EXCEPT ![p].pc = "idle", ![p].new = @ + 1]
                /\ UNCHANGED accounts
           ELSE IF procs[p].ret[2] = "duplicate"
           THEN /\ procs' = [procs EXCEPT ![p].pc = "idle", ![p].duplicate = @ + 1]
                /\ accounts' = update_account_last_sync_time(
                                   accounts, r.account_id, r.transaction_time,
                                   r.account_name, r.account_type)
           ELSE /\ procs' = [procs EXCEPT ![p].pc = "idle",
                                          ![p].errors = Append(@, procs[p].ret[2])]
                /\ UNCHANGED accounts
    /\ UNCHANGED <<transactions, savedLog, ret, syncVars, schedVars, pureVars>>

InitRace ==
    /\ transactions = << >>
    /\ accounts = << >>
    /\ ret = None
    /\ savedLog = << >>
    /\ mailbox = << >>
    /\ now = 0
    /\ cfgAccount = None
    /\ run = NoRun
    /\ pending = {}
    /\ procs = [p \in ProcIds |-> IdleProc]
    /\ SchedIdle
    /\ PureIdle

NextRace ==
    \E p \in ProcIds :
        \/ \E r \in RaceRecords : Call(p, r)
        \/ Precheck(p)
        \/ EnsureAccount(p)
        \/ Insert(p)
        \/ UpdateLastSync(p)
        \/ SyncBalance(p)
        \/ WriteBalance(p)
        \/ Tally(p)

SpecRace == InitRace /\ [][NextRace]_vars

(***************************************************************************)
(* The scheduler: Scheduler.start run by the calling thread (cli.py) and   *)
(* by the thread of start_background, over one ScheduledTask.  A step is   *)
(* one statement (or one block under self._lock); the interpreter can      *)
(* switch threads between any two of them.                                 *)
(***************************************************************************)
ThreadIds == {"main", "background"}

IntervalMinutes == {1, 2}

NewThread == [ pc |-> "new", todo |-> FALSE ]

\* scheduler.py 36-42
should_run(tk, clock) ==
    IF tk.is_running THEN FALSE
    ELSE IF tk.next_run = None THEN TRUE
    ELSE clock >= tk.next_run[1]

\* scheduler.py 122-123: if self._running: return
StartCheck(t) ==
    /\ threads[t].pc = "new"
    /\ threads' = [threads EXCEPT ![t].pc = IF _running THEN "exit" ELSE "set_running"]
    /\ UNCHANGED <<storeVars, ret, syncVars, procs, pureVars, _running, task>>

\* scheduler.py 125
StartSet(t) ==
    /\ threads[t].pc = "set_running"
    /\ _running' = TRUE
    /\ threads' = [threads EXCEPT ![t].pc = "loop"]
    /\ UNCHANGED <<storeVars, ret, syncVars, procs, pureVars, task>>

\* scheduler.py 129: while self._running
LoopTest(t) ==
    /\ threads[t].pc = "loop"
    /\ threads' = [threads EXCEPT ![t].pc = IF _running THEN "check" ELSE "stopping"]
    /\ UNCHANGED <<storeVars, ret, syncVars, procs, pureVars, _running, task>>

\* scheduler.py 152-156: tasks_to_run, computed under self._lock
Check(t) ==
    /\ threads[t].pc = "check"
    /\ LET todo == should_run(task, now)
       IN  threads' = [threads EXCEPT ![t].todo = todo,
                                      ![t].pc = IF todo THEN "execute" ELSE "sleep"]
    /\ UNCHANGED <<storeVars, ret, syncVars, procs, pureVars, _running, task>>

\* scheduler.py 158-161 and 46-47: execute() marks the task and calls func
Execute(t) ==
    /\ threads[t].pc = "execute"
    /\ task' = [task EXCEPT !.is_running = TRUE, !.last_run = Some(now)]
    /\ threads' = [threads EXCEPT ![t].pc = "func", ![t].todo = FALSE]
    /\ UNCHANGED <<storeVars, ret, syncVars, procs, pureVars, _running>>

\* scheduler.py 50-52: func returns (run_count += 1) or raises
FuncEnds(t, raised) ==
    /\ threads[t].pc = "func"
    /\ task' = IF raised THEN task ELSE [task EXCEPT !.run_count = @ + 1]
    /\ threads' = [threads EXCEPT ![t].pc = "finally"]
    /\ UNCHANGED <<storeVars, ret, syncVars, procs, pureVars, _running>>

\* scheduler.py 53-56; an exception of func is caught at 163-164
Finally(t) ==
    /\ threads[t].pc = "finally"
    /\ task' = [task EXCEPT !.is_running = FALSE,
                            !.next_run = Some(task.last_run[1] + task.interval_minutes)]
    /\ threads' = [threads EXCEPT ![t].pc = "sleep"]
    /\ UNCHANGED <<storeVars, ret, syncVars, procs, pureVars, _running>>

\* scheduler.py 131
Sleep(t) ==
    /\ threads[t].pc = "sleep"
    /\ threads' = [threads EXCEPT ![t].pc = "loop"]
    /\ UNCHANGED <<storeVars, ret, syncVars, procs, pureVars, _running, task>>

\* scheduler.py 134-135
Stopping(t) ==
    /\ threads[t].pc = "stopping"
    /\ _running' = FALSE
    /\ threads' = [threads EXCEPT ![t].pc = "exit"]
    /\ UNCHANGED <<storeVars, ret, syncVars, procs, pureVars, task>>

\* scheduler.py 144-148: join gives up after 5 seconds while the loop thread
\* sleeps for the check interval (60 seconds by default).
stop ==
    /\ _running
    /\ _running' = FALSE
    /\ UNCHANGED <<storeVars, ret, syncVars, procs, pureVars, task, threads>>

InitSched ==
    /\ transactions = << >>
    /\ accounts = << >>
    /\ ret = None
    /\ savedLog = << >>
    /\ mailbox = << >>
    /\ now = 1
    /\ cfgAccount = None
    /\ run = NoRun
    /\ pending = {}
    /\ procs = << >>
    /\ _running = FALSE
    /\ \E m \in IntervalMinutes :
          task = [ is_running |-> FALSE, last_run |-> None, next_run |-> None,
                   run_count |-> 0, interval_minutes |-> m ]
    /\ threads = [t \in ThreadIds |-> NewThread]
    /\ PureIdle

NextSched ==
    \/ \E t \in ThreadIds :
          \/ StartCheck(t)
          \/ StartSet(t)
          \/ LoopTest(t)
          \/ Check(t)
          \/ Execute(t)
          \/ \E raised \in BOOLEAN : FuncEnds(t, raised)
          \/ Finally(t)
          \/ Sleep(t)
          \/ Stopping(t)
    \/ stop
    \/ Tick

SpecSched == InitSched /\ [][NextSched]_vars

(***************************************************************************)
(* The check cycle over several tasks: Scheduler._check_and_execute run by *)
(* the threads of a started scheduler.  Here task maps each task's name to *)
(* its ScheduledTask, and a thread keeps tasks_to_run (todo), the task it  *)
(* is executing (cur) and whether that task's function raised.             *)
(***************************************************************************)
\* self.tasks, in the order the tasks were added.
TaskNames == <<"qqmail_sync", "report">>

\* scheduler.py 152-156: tasks_to_run, computed under self._lock
CycleCheck(t) ==
    /\ threads[t].pc = "check"
    /\ LET Due(k) == should_run(task[k], now)
           todo == SelectSeq(TaskNames, Due)
       IN  threads' = [threads EXCEPT ![t].todo = todo,
                                      ![t].pc = IF todo = << >> THEN "sleep" ELSE "execute"]
    /\ UNCHANGED <<storeVars, ret, syncVars, procs, pureVars, _running, task>>

\* scheduler.py 158-161 and 46-47: the next task of tasks_to_run is marked
\* and its func is called
CycleExecute(t) ==
    /\ threads[t].pc = "execute"
    /\ LET k == Head(threads[t].todo)
       IN  /\ task' = [task EXCEPT ![k].is_running = TRUE, ![k].last_run = Some(now)]
           /\ threads' = [threads EXCEPT ![t].pc = "func", ![t].cur = k,
                                          ![t].todo = Tail(@), ![t].raised = FALSE]
    /\ UNCHANGED <<storeVars, ret, syncVars, procs, pureVars, _running>>

\* scheduler.py 50-52: func returns (run_count += 1) or raises
CycleFuncEnds(t, raised) ==
    /\ threads[t].pc = "func"
    /\ task' = IF raised THEN task ELSE [task EXCEPT ![threads[t].cur].run_count = @ + 1]
    /\ threads' = [threads EXCEPT ![t].pc = "finally", ![t].raised = raised]
    /\ UNCHANGED <<storeVars, ret, syncVars, procs, pureVars, _running>>

\* Mutant: an exception of func is not caught by the loop over tasks_to_run;
\* it ends the cycle and leaves start() through its finally.
CycleFinallyPropagates(t) ==
    /\ threads[t].pc = "finally"
    /\ LET k == threads[t].cur
       IN  task' = [task EXCEPT ![k].is_running = FALSE,
                                ![k].next_run =
                                    Some(task[k].last_run[1] + task[k].interval_minutes)]
    /\ IF threads[t].raised
       THEN /\ threads' = [threads EXCEPT ![t].pc = "exit", ![t].todo = << >>]
            /\ _running' = FALSE
       ELSE /\ threads' = [threads EXCEPT ![t].pc =
                                IF threads[t].todo = << >> THEN "sleep" ELSE "execute"]
            /\ UNCHANGED _running
    /\ UNCHANGED <<storeVars, ret, syncVars, procs, pureVars>>

\* scheduler.py 53-56, then 158-164: the finally of execute(); an exception
\* of func is caught in the loop, which goes on with the next task
CycleFinally(t) ==
    /\ threads[t].pc = "finally"
    /\ LET k == threads[t].cur
       IN  task' = [task EXCEPT ![k].is_running = FALSE,
                                ![k].next_run =
                                    Some(task[k].last_run[1] + task[k].interval_minutes)]
    /\ threads' = [threads EXCEPT ![t].pc =
                       IF threads[t].todo = << >> THEN "sleep" ELSE "execute"]
    /\ UNCHANGED _running
    /\ UNCHANGED <<storeVars, ret, syncVars, procs, pureVars>>

\* scheduler.py 129-131: time.sleep(interval), then while self._running
CycleSleep(t) ==
    /\ threads[t].pc = "sleep"
    /\ threads' = [threads EXCEPT ![t].pc = IF _running THEN "check" ELSE "exit"]
    /\ UNCHANGED <<storeVars, ret, syncVars, procs, pureVars, _running, task>>

InitCycle ==
    /\ transactions = << >>
    /\ accounts = << >>
    /\ ret = None
    /\ savedLog = << >>
    /\ mailbox = << >>
    /\ now = 1
    /\ cfgAccount = None
    /\ run = NoRun
    /\ pending = {}
    /\ procs = << >>
    /\ _running = TRUE
    /\ task \in [ { TaskNames[i] : i \in 1 .. Len(TaskNames) } ->
                    { [ is_running |-> FALSE, last_run |-> None, next_run |-> None,
                        run_count |-> 0, interval_minutes |-> m ] : m \in IntervalMinutes } ]
    /\ threads = [ t \in ThreadIds |->
                     [ pc |-> "check", todo |-> << >>, cur |-> "", raised |-> FALSE ] ]
    /\ PureIdle

NextCycle ==
    \/ \E t \in ThreadIds :
          \/ CycleCheck(t)
          \/ CycleExecute(t)
          \/ \E raised \in BOOLEAN : CycleFuncEnds(t, raised)
          \/ CycleFinally(t)
          \/ CycleSleep(t)
    \/ stop
    \/ Tick

SpecCycle == InitCycle /\ [][NextCycle]_vars

(***************************************************************************)
(* The fingerprint of a record: RawTransaction.generate_transaction_id.    *)
(*                                                                         *)
(* A Decimal is <<coefficient, exponent>>, as the constructor keeps it:    *)
(* Decimal("3") is <<3, 0>> and Decimal("3.00") is <<300, -2>>.  The two   *)
(* compare equal, and str() prints them as "3" and "3.00"; f"{amount}" is  *)
(* one-to-one on this pair, which therefore stands for the printed text.   *)
(* A counterparty is <<name, type, category>>.                             *)
(***************************************************************************)
Decimals == { <<3, 0>>, <<300, -2>>, <<10, 0>> }

\* The amount in hundredths: the value Decimal.__eq__ compares.
Hundredths(d) ==
    d[1] * (IF d[2] = 0 THEN 100 ELSE IF d[2] = -1 THEN 10 ELSE 1)

DecimalEq(a, b) == Hundredths(a) = Hundredths(b)

Counterparties ==
    { None,
      <<"unknown", Some("merchant"), None>>,
      <<"shop", Some("merchant"), None>>,
      <<"shop", Some("person"), Some("shopping")>> }

\* <<raw_id, notes, metadata, balance, channel, tags>>
Extras ==
    { <<"a1", "", "quick_pay", None, None, << >> >>,
      <<"b2", "note", "consumption", Some(100), Some("wechat"), <<"tag">> >> }

FullTransaction(acct, t, d, c, x) ==
    [ raw_id |-> x[1],
      source_type |-> "cmb_email",
      source_account |-> "test@example.com",
      transaction_time |-> t,
      account_id |-> acct,
      transaction_type |-> "consumption",
      amount |-> d,
      balance |-> x[4],
      counterparty |-> c,
      channel |-> x[5],
      metadata |-> x[3],
      tags |-> x[6],
      notes |-> x[2] ]

FullRecords ==
    { FullTransaction(a, t, d, c, x) :
        a \in AccountIds, t \in StoreTimes, d \in Decimals, c \in Counterparties, x \in Extras }

\* Both records are fingerprinted.
Fingerprint ==
    /\ result = None
    /\ result' = << generate_transaction_id(given[1]), generate_transaction_id(given[2]) >>
    /\ UNCHANGED <<storeVars, ret, syncVars, procs, schedVars, given>>

InitFingerprint ==
    /\ transactions = << >>
    /\ accounts = << >>
    /\ ret = None
    /\ savedLog = << >>
    /\ mailbox = << >>
    /\ now = 0
    /\ cfgAccount = None
    /\ run = NoRun
    /\ pending = {}
    /\ procs = << >>
    /\ SchedIdle
    /\ given \in FullRecords \X FullRecords
    /\ result = None

NextFingerprint == Fingerprint

SpecFingerprint == InitFingerprint /\ [][NextFingerprint]_vars

(***************************************************************************)
(* The parser: CMBEmailParser.parse.                                       *)
(*                                                                         *)
(* A cleaned text is a sequence of tokens <<kind, string>>: "kw" for the   *)
(* fixed words and punctuation of a notification, "d4" and "d2" for runs   *)
(* of four and of two digits, "num" for any other number, "cur" for three  *)
(* capital letters, "sp" for a blank and "txt" for any other run of        *)
(* characters.  A regular                                                  *)
(* expression is the sequence of its elements and is matched token by      *)
(* token with the choices re makes: an optional element is tried present   *)
(* first, (.+?) takes the fewest tokens that let the rest match, and       *)
(* search returns the match with the leftmost start.                       *)
(***************************************************************************)
\* The words, written in ASCII: "account" 您账户, "at" 于, "month" 月, "day" 日,
\* "in" 在, "quick_pay" 快捷支付, "consume" 消费, "ru" 入, "zhang" 账,
\* "receive" 收款, "yuan" 元, "," ，, "balance" 余额, "remark:" 备注：, "to" 您向,
\* "transfer" 转账, ":" and "-" themselves, "*" the mask before the card tail.
Kw(s) == <<"kw", s>>
Txt(s) == <<"txt", s>>
Num(s) == <<"num", s>>
D4(s) == <<"d4", s>>
D2(s) == <<"d2", s>>
Cur(s) == <<"cur", s>>

\* Elements of a pattern.
Lit(s) == <<"lit", s>>          \* the word s
OptLit(s) == <<"opt", s>>       \* s?
Cap(kind) == <<"cap", kind>>    \* (\d{4}), (\d{2}), (\d+\.?\d*)
OptCur == <<"optcur", "">>      \* ([A-Z]{3})?
Lazy == <<"lazy", "">>          \* (.+?)
Spaces == <<"spaces", "">>      \* \s*
ToEnd == <<"toend", "">>        \* (.+?)(?:\n|$) on a text without line breaks

\* \d{n} and \d+\.?\d* against one token.
Fits(kind, tok) ==
    IF kind = "num" THEN tok[1] \in {"num", "d4", "d2"} ELSE tok[1] = kind

\* (\d{2})月(\d{2})日(\d{2}):(\d{2})
DatePattern ==
    << Cap("d2"), Lit("month"), Cap("d2"), Lit("day"), Cap("d2"), Lit(":"), Cap("d2") >>

\* 您账户\*?(\d{4})于 and the date
AccountAt == << Lit("account"), OptLit("*"), Cap("d4"), Lit("at") >> \o DatePattern

\* ([A-Z]{3})?\s*(\d+\.?\d*)元?
CurrencyAmount == << OptCur, Spaces, Cap("num"), OptLit("yuan") >>

\* cmb_email_parser.py 29-94
patterns ==
    [ quick_pay |->
          AccountAt \o << Lit("in"), Lazy, Lit("quick_pay"), Cap("num"), Lit("yuan"), Lit(","),
                          Lit("balance"), Cap("num") >>,
      merchant_consumption |-> AccountAt \o << Lit("in"), Lazy, Lit("consume") >> \o CurrencyAmount,
      consumption |-> AccountAt \o << Lit("consume") >> \o CurrencyAmount,
      income |-> AccountAt \o << OptLit("ru"), Lit("zhang") >> \o CurrencyAmount,
      income_with_balance |->
          AccountAt \o << Lit("receive"), Cap("num"), Lit("yuan"), Lit(","), Lit("balance"), Cap("num"),
                          Lit(","), Lit("remark:"), ToEnd >>,
      transfer_out |-> << Lit("to"), Lazy, Lit("transfer") >> \o CurrencyAmount ]

\* The groups of the match of pat[pi ..] at text[ti ..], or None.  A group is
\* the sequence of the tokens it captured, None for an optional group that
\* took nothing.
RECURSIVE MatchFrom(_, _, _, _, _), MatchLazy(_, _, _, _, _, _)
MatchFrom(pat, pi, text, ti, groups) ==
    IF pi > Len(pat) THEN Some(groups)
    ELSE LET e == pat[pi]
             here == ti <= Len(text)
         IN  IF e[1] = "lit"
             THEN IF here /\ text[ti] = Kw(e[2])
                  THEN MatchFrom(pat, pi + 1, text, ti + 1, groups)
                  ELSE None
             ELSE IF e[1] = "opt"
             THEN LET with == IF here /\ text[ti] = Kw(e[2])
                              THEN MatchFrom(pat, pi + 1, text, ti + 1, groups)
                              ELSE None
                  IN  IF with # None THEN with
                      ELSE MatchFrom(pat, pi + 1, text, ti, groups)
             ELSE IF e[1] = "cap"
             THEN IF here /\ Fits(e[2], text[ti])
                  THEN MatchFrom(pat, pi + 1, text, ti + 1, Append(groups, <<text[ti]>>))
                  ELSE None
             ELSE IF e[1] = "optcur"
             THEN LET with == IF here /\ text[ti][1] = "cur"
                              THEN MatchFrom(pat, pi + 1, text, ti + 1,
                                             Append(groups, <<text[ti]>>))
                              ELSE None
                  IN  IF with # None THEN with
                      ELSE MatchFrom(pat, pi + 1, text, ti, Append(groups, None))
             ELSE IF e[1] = "spaces"
             THEN IF here /\ text[ti][1] = "sp"
                  THEN MatchFrom(pat, pi, text, ti + 1, groups)
                  ELSE MatchFrom(pat, pi + 1, text, ti, groups)
             ELSE IF e[1] = "lazy"
             THEN MatchLazy(pat, pi, text, ti, 1, groups)
             ELSE \* "toend"
                  IF here
                  THEN MatchFrom(pat, pi + 1, text, Len(text) + 1,
                                 Append(groups, SubSeq(text, ti, Len(text))))
                  ELSE None

MatchLazy(pat, pi, text, ti, n, groups) ==
    IF ti + n - 1 > Len(text) THEN None
    ELSE LET m == MatchFrom(pat, pi + 1, text, ti + n,
                            Append(groups, SubSeq(text, ti, ti + n - 1)))
         IN  IF m # None THEN m ELSE MatchLazy(pat, pi, text, ti, n + 1, groups)

\* pattern.search(text): the groups of the leftmost match, or None.
RECURSIVE SearchFrom(_, _, _)
SearchFrom(pat, text, ti) ==
    IF ti > Len(text) THEN None
    ELSE LET m == MatchFrom(pat, 1, text, ti, << >>)
         IN  IF m # None THEN m ELSE SearchFrom(pat, text, ti + 1)

search(pat, text) == SearchFrom(pat, text, 1)

\* The pieces of text, written in ASCII: "tenpay" 财付通, "wechat_pay" 微信支付,
\* "wechat_withdraw" 微信零钱提现, "alipay" 支付宝, "supermarket" 超市,
\* "shop" 山月荟装扮, "payer" 张子鸣, "payee" 张三.
Sp == <<"sp", " ">>
Dash == Kw("-")

\* cmb_email_parser.py 142-149: lines are stripped, empty lines dropped, and the
\* rest joined by single spaces.  A body is the sequence of its lines.
RECURSIVE lstrip(_)
lstrip(line) ==
    IF line # << >> /\ line[1] = Sp THEN lstrip(Tail(line)) ELSE line

RECURSIVE rstrip(_)
rstrip(line) ==
    IF line # << >> /\ line[Len(line)] = Sp
    THEN rstrip(SubSeq(line, 1, Len(line) - 1))
    ELSE line

strip(line) == rstrip(lstrip(line))

RECURSIVE _clean_text(_)
_clean_text(lines) ==
    IF lines = << >> THEN << >>
    ELSE LET first == strip(lines[1])
             rest == _clean_text(Tail(lines))
         IN  IF first = << >> THEN rest
             ELSE IF rest = << >> THEN first
             ELSE first \o <<Sp>> \o rest

\* int() of two digits
IntOf ==
    ("02" :> 2) @@ ("12" :> 12) @@ ("13" :> 13) @@ ("19" :> 19) @@ ("21" :> 21)
    @@ ("25" :> 25) @@ ("29" :> 29) @@ ("31" :> 31) @@ ("41" :> 41)

\* Decimal(str(group)): <<coefficient, exponent>>
DecimalOf ==
    ("3" :> <<3, 0>>) @@ ("3.00" :> <<300, -2>>) @@ ("12.00" :> <<1200, -2>>)
    @@ ("100.00" :> <<10000, -2>>) @@ ("100638.62" :> <<10063862, -2>>)
    @@ ("8551" :> <<8551, 0>>)
    @@ [s \in DOMAIN IntOf |-> <<IntOf[s], 0>>]

\* The strings of a run of tokens, one after the other.
Text(toks) == [i \in 1 .. Len(toks) |-> toks[i][2]]

\* str.split('-'): the parts, each the strings between two dashes.
RECURSIVE split(_, _, _)
split(toks, i, part) ==
    IF i > Len(toks) THEN <<part>>
    ELSE IF toks[i] = Dash THEN <<part>> \o split(toks, i + 1, << >>)
    ELSE split(toks, i + 1, Append(part, toks[i][2]))

\* str.strip() of a run of strings
RECURSIVE StripText(_)
StripText(ss) ==
    IF ss # << >> /\ ss[1] = " " THEN StripText(Tail(ss))
    ELSE IF ss # << >> /\ ss[Len(ss)] = " " THEN StripText(SubSeq(ss, 1, Len(ss) - 1))
    ELSE ss

\* kw in text, for a keyword that is one of the pieces
Contains(ss, words) == \E i \in 1 .. Len(ss) : ss[i] \in words

AccountPatterns ==
    {"quick_pay", "merchant_consumption", "consumption", "income", "income_with_balance"}

\* cmb_email_parser.py 200-204
_extract_card_tail(groups, pattern_name) ==
    IF pattern_name \in AccountPatterns THEN groups[1][1][2] ELSE "unknown"

\* A datetime is <<year, month, day, hour, minute, microsecond>>.
DaysIn(year, month) ==
    IF month \in {4, 6, 9, 11} THEN 30
    ELSE IF month # 2 THEN 31
    ELSE IF year % 4 = 0 /\ (year % 100 # 0 \/ year % 400 = 0) THEN 29
    ELSE 28

\* datetime(year, month, day, hour, minute) does not raise ValueError
ValidDate(year, month, day, hour, minute) ==
    /\ month \in 1 .. 12
    /\ day \in 1 .. DaysIn(year, month)
    /\ hour \in 0 .. 23
    /\ minute \in 0 .. 59

\* cmb_email_parser.py 206-220; clock is what datetime.now() returns
_extract_time(groups, pattern_name, clock) ==
    IF pattern_name \in AccountPatterns
    THEN LET month == IntOf[groups[2][1][2]]
             day == IntOf[groups[3][1][2]]
             hour == IntOf[groups[4][1][2]]
             minute == IntOf[groups[5][1][2]]
             year == IF month > clock[2] THEN clock[1] - 1 ELSE clock[1]
         IN  IF ValidDate(year, month, day, hour, minute)
             THEN <<year, month, day, hour, minute, 0>>
             ELSE clock
    ELSE clock

\* Mutant: the amount of a receipt is read from the balance group.
_extract_amount_balance_group(groups, pattern_name) ==
    IF pattern_name = "quick_pay" THEN DecimalOf[groups[7][1][2]]
    ELSE IF pattern_name = "merchant_consumption" THEN DecimalOf[groups[8][1][2]]
    ELSE IF pattern_name \in {"consumption", "income"} THEN DecimalOf[groups[7][1][2]]
    ELSE IF pattern_name = "income_with_balance" THEN DecimalOf[groups[7][1][2]]
    ELSE DecimalOf[groups[3][1][2]]

\* cmb_email_parser.py 222-239
_extract_amount(groups, pattern_name) ==
    IF pattern_name = "quick_pay" THEN DecimalOf[groups[7][1][2]]
    ELSE IF pattern_name = "merchant_consumption" THEN DecimalOf[groups[8][1][2]]
    ELSE IF pattern_name \in {"consumption", "income"} THEN DecimalOf[groups[7][1][2]]
    ELSE IF pattern_name = "income_with_balance" THEN DecimalOf[groups[6][1][2]]
    ELSE DecimalOf[groups[3][1][2]]

\* 余额[:：]?\s*(\d+\.?\d*)
balance_pattern == << Lit("balance"), OptLit(":"), Spaces, Cap("num") >>

\* cmb_email_parser.py 241-260
_extract_balance(groups, pattern_name, full_text) ==
    IF pattern_name = "quick_pay" THEN Some(DecimalOf[groups[8][1][2]])
    ELSE IF pattern_name = "income_with_balance" THEN Some(DecimalOf[groups[7][1][2]])
    ELSE LET m == search(balance_pattern, full_text)
         IN  IF m # None THEN Some(DecimalOf[m[1][1][1][2]]) ELSE None

\* cmb_email_parser.py 382-401
_infer_category(name) ==
    IF Contains(name, {"supermarket"}) THEN Some("shopping") ELSE None

\* Mutant: the counterparty of a quick payment is the second part of the
\* composite (the channel), not the third.
_extract_counterparty_second_part(groups, pattern_name, full_text) ==
    IF pattern_name = "quick_pay"
    THEN LET parts == split(groups[6], 1, << >>)
             merchant_name == IF Len(parts) > 2 THEN parts[2] ELSE Text(groups[6])
         IN  <<StripText(merchant_name), Some("merchant"), _infer_category(merchant_name)>>
    ELSE IF pattern_name = "merchant_consumption"
    THEN LET merchant_name == Text(groups[6])
         IN  <<StripText(merchant_name), Some("merchant"), _infer_category(merchant_name)>>
    ELSE IF pattern_name = "transfer_out"
    THEN <<StripText(Text(groups[1])), Some("person"), None>>
    ELSE IF pattern_name = "income_with_balance"
    THEN LET parts == split(groups[8], 1, << >>)
         IN  IF Len(parts) >= 2
             THEN <<StripText(parts[2]), Some("person"), None>>
             ELSE <<StripText(Text(groups[8])), Some("merchant"), None>>
    ELSE None

\* cmb_email_parser.py 262-322: <<name, type, category>> or None
_extract_counterparty(groups, pattern_name, full_text) ==
    IF pattern_name = "quick_pay"
    THEN LET parts == split(groups[6], 1, << >>)
             merchant_name == IF Len(parts) > 2 THEN parts[3] ELSE Text(groups[6])
         IN  <<StripText(merchant_name), Some("merchant"), _infer_category(merchant_name)>>
    ELSE IF pattern_name = "merchant_consumption"
    THEN LET merchant_name == Text(groups[6])
         IN  <<StripText(merchant_name), Some("merchant"), _infer_category(merchant_name)>>
    ELSE IF pattern_name = "transfer_out"
    THEN <<StripText(Text(groups[1])), Some("person"), None>>
    ELSE IF pattern_name = "income_with_balance"
    THEN LET parts == split(groups[8], 1, << >>)
         IN  IF Len(parts) >= 2
             THEN <<StripText(parts[2]), Some("person"), None>>
             ELSE <<StripText(Text(groups[8])), Some("merchant"), None>>
    ELSE None

\* cmb_email_parser.py 324-380: <<name, provider, method>> or None
_extract_channel(groups, pattern_name, full_text) ==
    LET by_keyword ==
            IF Contains(Text(full_text), {"wechat_pay", "tenpay"})
            THEN <<Some(<<"wechat_pay">>), Some(<<"tenpay">>), None>>
            ELSE IF Contains(Text(full_text), {"alipay"})
            THEN <<Some(<<"alipay">>), Some(<<"alipay">>), None>>
            ELSE None
    IN  IF pattern_name = "quick_pay"
        THEN LET parts == split(groups[6], 1, << >>)
             IN  << IF Len(parts) > 1 THEN Some(parts[2]) ELSE None,
                    Some(parts[1]), Some("quick_pay") >>
        ELSE IF pattern_name = "income_with_balance"
        THEN LET parts == split(groups[8], 1, << >>)
             IN  IF Len(parts) >= 3
                 THEN LET channel_info == StripText(parts[3])
                      IN  IF Contains(channel_info, {"wechat_pay", "wechat_withdraw"})
                          THEN <<Some(<<"wechat_withdraw">>), Some(StripText(parts[1])),
                                 Some("transfer")>>
                          ELSE <<Some(channel_info), Some(StripText(parts[1])), Some("transfer")>>
                 ELSE IF Len(parts) = 1
                 THEN <<Some(StripText(parts[1])), None, Some("transfer")>>
                 ELSE by_keyword
        ELSE by_keyword

\* cmb_email_parser.py 151-198
_build_transaction(groups, pattern_name, transaction_type, full_text, email_from, clock) ==
    [ source_type |-> "cmb_email",
      source_account |-> email_from,
      transaction_time |-> _extract_time(groups, pattern_name, clock),
      account_id |-> _extract_card_tail(groups, pattern_name),
      account_type |-> Some("debit"),
      account_name |-> None,
      transaction_type |-> transaction_type,
      amount |-> _extract_amount(groups, pattern_name),
      balance |-> _extract_balance(groups, pattern_name, full_text),
      counterparty |-> _extract_counterparty(groups, pattern_name, full_text),
      channel |-> _extract_channel(groups, pattern_name, full_text),
      pattern_matched |-> pattern_name ]

\* Mutant: the generic consumption pattern is tried before the quick-pay and
\* merchant patterns.
patterns_to_try_generic_first ==
    << <<"consumption", "consumption">>,
       <<"quick_pay", "consumption">>,
       <<"merchant_consumption", "consumption">>,
       <<"income_with_balance", "income">>,
       <<"income", "income">>,
       <<"transfer_out", "transfer_out">> >>

\* cmb_email_parser.py 114-121
patterns_to_try ==
    << <<"quick_pay", "consumption">>,
       <<"merchant_consumption", "consumption">>,
       <<"consumption", "consumption">>,
       <<"income_with_balance", "income">>,
       <<"income", "income">>,
       <<"transfer_out", "transfer_out">> >>

\* cmb_email_parser.py 123-140, over the patterns order[i ..]
RECURSIVE TryPatterns(_, _, _, _, _)
TryPatterns(order, i, text, email_from, clock) ==
    IF i > Len(order) THEN None
    ELSE LET m == search(patterns[order[i][1]], text)
         IN  IF m # None
             THEN Some(_build_transaction(m[1], order[i][1], order[i][2], text,
                                          email_from, clock))
             ELSE TryPatterns(order, i + 1, text, email_from, clock)

\* Mutant: a text in which no pattern is found gives a record of type other
\* with amount 0 instead of no record.
parse_never_empty(email_body, email_subject, email_from, email_date, clock) ==
    LET r == TryPatterns(patterns_to_try, 1, _clean_text(email_body), email_from, clock)
    IN  IF r # None THEN r
        ELSE Some([ source_type |-> "cmb_email", source_account |-> email_from,
                    transaction_time |-> clock, account_id |-> "unknown",
                    account_type |-> Some("debit"), account_name |-> None,
                    transaction_type |-> "other", amount |-> <<0, 0>>, balance |-> None,
                    counterparty |-> None, channel |-> None, pattern_matched |-> "none" ])

\* cmb_email_parser.py 96-140: Some(record) or None
parse(email_body, email_subject, email_from, email_date, clock) ==
    TryPatterns(patterns_to_try, 1, _clean_text(email_body), email_from, clock)

(***************************************************************************)
(* Notifications, and the specification of parse: a body of up to MaxLines *)
(* lines is parsed at two instants of the wall clock.                      *)
(***************************************************************************)
\* MM月DD日HH:MM
StdDate == <<"02", "21", "19", "25">>
BadDate == <<"13", "41", "19", "25">>
LeapDate == <<"02", "29", "19", "25">>
EveDate == <<"12", "31", "19", "25">>

Opening(mask, d) ==
    <<Kw("account")>> \o mask
    \o << D4("8551"), Kw("at"), D2(d[1]), Kw("month"), D2(d[2]), Kw("day"),
          D2(d[3]), Kw(":"), D2(d[4]) >>

Composite(names) ==
    IF Len(names) = 1 THEN <<Txt(names[1])>>
    ELSE IF Len(names) = 2 THEN <<Txt(names[1]), Dash, Txt(names[2])>>
    ELSE IF Len(names) = 3 THEN <<Txt(names[1]), Dash, Txt(names[2]), Dash, Txt(names[3])>>
    ELSE <<Txt(names[1]), Dash, Txt(names[2]), Dash, Txt(names[3]), Dash, Txt(names[4])>>

QuickPay(d, names) ==
    Opening(<< >>, d) \o <<Kw("in")>> \o Composite(names)
    \o << Kw("quick_pay"), Num("3.00"), Kw("yuan"), Kw(","), Kw("balance"), Num("100638.62") >>

MerchantConsumption(d) ==
    Opening(<< >>, d)
    \o << Kw("in"), Txt("supermarket"), Kw("consume"), Cur("CNY"), Sp, Num("12.00"), Kw("yuan") >>

Consumption(mask, d) ==
    Opening(mask, d) \o << Kw("consume"), Cur("CNY"), Sp, Num("12.00") >>

Income(d) == Opening(<< >>, d) \o << Kw("ru"), Kw("zhang"), Cur("CNY"), Sp, Num("100.00") >>

Receipt(d, names) ==
    Opening(<< >>, d)
    \o << Kw("receive"), Num("3.00"), Kw("yuan"), Kw(","), Kw("balance"), Num("100638.62"),
          Kw(","), Kw("remark:") >>
    \o Composite(names)

TransferOut == << Kw("to"), Txt("payee"), Kw("transfer"), Cur("CNY"), Sp, Num("100.00"), Kw("yuan") >>

Greeting == << Txt("hello") >>

\* The lines a body is put together from.
Lines ==
    { QuickPay(StdDate, <<"tenpay", "wechat_pay", "shop">>),
      MerchantConsumption(StdDate),
      Consumption(<< >>, StdDate),
      Income(StdDate),
      Receipt(StdDate, <<"tenpay", "payer", "wechat_withdraw">>),
      TransferOut,
      Consumption(<< >>, BadDate),
      Greeting,
      <<Sp>> }

\* Further one-line bodies.
Variants ==
    { QuickPay(StdDate, <<"shop">>),
      QuickPay(StdDate, <<"tenpay", "shop">>),
      QuickPay(StdDate, <<"tenpay", "wechat_pay", "shop", "branch">>),
      QuickPay(BadDate, <<"tenpay", "wechat_pay", "shop">>),
      QuickPay(LeapDate, <<"tenpay", "wechat_pay", "shop">>),
      QuickPay(EveDate, <<"tenpay", "wechat_pay", "shop">>),
      Receipt(StdDate, <<"payer">>),
      Receipt(StdDate, <<"alipay", "payer">>),
      Receipt(BadDate, <<"tenpay", "payer", "wechat_withdraw">>),
      Receipt(StdDate, <<"payer">>) \o << Kw("consume"), Num("3.00") >>,
      Consumption(<<Kw("*")>>, StdDate),
      <<Sp>> \o Consumption(<< >>, StdDate) \o <<Sp>> }

Bodies ==
    UNION { [1 .. n -> Lines] : n \in 0 .. MaxLines } \cup { <<v>> : v \in Variants }

Subjects == {"CMB notice", "newsletter"}
Senders == {"notify@cmbchina.com", "someone@example.com"}

\* datetime.now() at three instants
Clocks ==
    { <<2026, 2, 21, 19, 30, 101>>, <<2026, 2, 22, 8, 0, 202>>, <<2026, 3, 1, 8, 0, 303>> }

\* The same message is parsed at the two instants given.clocks.
Parse ==
    /\ result = None
    /\ result' = << parse(given.body, given.subject, given.sender, given.date, given.clocks[1]),
                    parse(given.body, given.subject, given.sender, given.date, given.clocks[2]) >>
    /\ UNCHANGED <<storeVars, ret, syncVars, procs, schedVars, given>>

InitParse ==
    /\ transactions = << >>
    /\ accounts = << >>
    /\ ret = None
    /\ savedLog = << >>
    /\ mailbox = << >>
    /\ now = 0
    /\ cfgAccount = None
    /\ run = NoRun
    /\ pending = {}
    /\ procs = << >>
    /\ SchedIdle
    /\ given \in [ body : Bodies, subject : Subjects, sender : Senders,
                   date : {"Sat, 21 Feb 2026 19:26:00 +0800"}, clocks : Clocks \X Clocks ]
    /\ result = None

NextParse == Parse

SpecParse == InitParse /\ [][NextParse]_vars

(***************************************************************************)
(* Properties of the store                                                 *)
(***************************************************************************)
Last(seq) == seq[Len(seq)]

Stored(r) == SelectByTransactionId(transactions, generate_transaction_id(r)) # {}

\* What one more call save_transaction(r) does to the current store.
CallOn(r, fail) == SaveOutcome(transactions, accounts, savedLog, r, fail)

\* Records of every transaction type, with and without an explicit balance.
TypedRecords(balances) ==
    { RawTransaction("8551", t, <<ty, amt, b, None, None>>) :
        t \in StoreTimes, ty \in TransactionType, amt \in {3, 10}, b \in balances }

\* C1 (as stated): for every record r and every store state, two calls
\* save_transaction(r) in a row return (True, "saved") and then
\* (False, "duplicate"), and the table grows by exactly one row.
C1_Original ==
    \A r \in StoreRecords :
        LET first == CallOn(r, "none")
            second == SaveOutcome(first.transactions, first.accounts, first.log, r, "none")
        IN  /\ first.ret = <<TRUE, "saved">>
            /\ second.ret = <<FALSE, "duplicate">>
            /\ Len(second.transactions) = Len(transactions) + 1

\* C1 (amended): for every record r whose transaction_id is not yet stored, two
\* calls save_transaction(r) in a row that meet no storage failure return
\* (True, "saved") and then (False, "duplicate"), and the table grows by
\* exactly one row.
C1_SavedThenDuplicate ==
    \A r \in StoreRecords :
        ~Stored(r) =>
            LET first == CallOn(r, "none")
                second == SaveOutcome(first.transactions, first.accounts, first.log, r, "none")
            IN  /\ first.ret = <<TRUE, "saved">>
                /\ Len(first.transactions) = Len(transactions) + 1
                /\ second.ret = <<FALSE, "duplicate">>
                /\ Len(second.transactions) = Len(transactions) + 1

\* A record was saved and the next call, of a stored record, returned duplicate.
C1_Witness ==
    /\ ret = <<FALSE, "duplicate">>
    /\ Len(transactions) = 1
    /\ Len(savedLog) = 1
    /\ accounts["8551"].current_balance = Some(0 - 3)

\* C2: save_transaction is all-or-nothing: a call either leaves the tables as
\* they were, or has stored the row together with the account creation, the
\* last_sync_time advance and the balance reconciliation of its record.
C2_AllOrNothing ==
    [][ \/ UNCHANGED <<transactions, accounts>>
        \/ \E r \in StoreRecords :
              /\ transactions' = CallOn(r, "none").transactions
              /\ accounts' = CallOn(r, "none").accounts ]_vars

\* C3: a newly saved record with an explicit balance, zero included, leaves
\* the account's current_balance equal to that balance, whatever the balance
\* before and whatever the record's type and amount.
C3_ExplicitBalanceReplaces ==
    \A r \in TypedRecords({Some(0), Some(100)}) :
        ~Stored(r) =>
            /\ CallOn(r, "none").ret = <<TRUE, "saved">>
            /\ CallOn(r, "none").accounts[r.account_id].current_balance = r.balance

\* A running total existed, then a record with the explicit balance 0 was saved.
C3_Witness ==
    /\ ret = <<TRUE, "saved">>
    /\ Len(savedLog) = 2
    /\ savedLog[1].balance = None
    /\ savedLog[1].transaction_type = "consumption"
    /\ savedLog[2].balance = Some(0)
    /\ accounts["8551"].current_balance = Some(0)

\* C4: a newly saved record without an explicit balance leaves current_balance
\* at the previous balance (0 if unknown) minus the amount for consumption,
\* transfer_out and fee, plus the amount for income, transfer_in, refund,
\* interest and dividend.
C4_DeltaApplied ==
    \A r \in TypedRecords({None}) :
        ~Stored(r) =>
            LET out == CallOn(r, "none")
                prev == IF r.account_id \in DOMAIN accounts
                           /\ accounts[r.account_id].current_balance # None
                        THEN accounts[r.account_id].current_balance[1]
                        ELSE 0
            IN  /\ out.ret = <<TRUE, "saved">>
                /\ r.transaction_type \in {"consumption", "transfer_out", "fee"}
                     => out.accounts[r.account_id].current_balance = Some(prev - r.amount)
                /\ r.transaction_type \in
                         {"income", "transfer_in", "refund", "interest", "dividend"}
                     => out.accounts[r.account_id].current_balance = Some(prev + r.amount)

\* From an unknown balance: consumption 3 gave -3, then income 10 gave 7.
C4_Witness ==
    /\ ret = <<TRUE, "saved">>
    /\ Len(savedLog) = 2
    /\ savedLog[1].transaction_type = "consumption" /\ savedLog[1].amount = 3
    /\ savedLog[1].balance = None
    /\ savedLog[2].transaction_type = "income" /\ savedLog[2].amount = 10
    /\ savedLog[2].balance = None
    /\ accounts["8551"].current_balance = Some(7)

SignedAmount(r) ==
    IF r.transaction_type \in {"consumption", "transfer_out", "fee"} THEN 0 - r.amount
    ELSE IF r.transaction_type \in {"income", "transfer_in", "refund", "interest", "dividend"}
         THEN r.amount
    ELSE 0

\* The balance the stored records of account a account for: the balance of the
\* last one that carried one (0 if none did) plus the signed amounts after it.
RECURSIVE Reconciled(_, _)
Reconciled(log, a) ==
    IF log = << >> THEN 0
    ELSE LET r == Last(log)
             before == SubSeq(log, 1, Len(log) - 1)
         IN  IF r.account_id # a THEN Reconciled(before, a)
             ELSE IF r.balance # None THEN r.balance[1]
             ELSE Reconciled(before, a) + SignedAmount(r)

\* C5: after every sequence of save_transaction calls, each account's
\* current_balance (0 if unknown) is the balance of its most recently saved
\* record with an explicit balance plus the signed amounts of the records
\* stored after it.
C5_BalanceReconciled ==
    \A a \in DOMAIN accounts :
        (IF accounts[a].current_balance # None THEN accounts[a].current_balance[1] ELSE 0)
            = Reconciled(savedLog, a)

\* C6: a call that finds the transaction_id stored returns (False, "duplicate"),
\* and a call that returns duplicate leaves transactions and the account's
\* current_balance, last_sync_time, account_name and account_type as they were.
C6_DuplicateChangesNothing ==
    \A r \in StoreRecords, fail \in FailPoints :
        LET out == CallOn(r, fail)
        IN  /\ Stored(r) => out.ret = <<FALSE, "duplicate">>
            /\ out.ret = <<FALSE, "duplicate">> =>
                    /\ out.transactions = transactions
                    /\ out.accounts = accounts

\* A duplicate was reported for an account whose name and type are still unset,
\* while the store holds a colliding record.
C6_Witness ==
    /\ ret = <<FALSE, "duplicate">>
    /\ Len(transactions) = 1
    /\ transactions[1].amount = 10
    /\ accounts["8551"].account_name = None
    /\ accounts["8551"].last_sync_time = Some(1)

(***************************************************************************)
(* Properties of the sync run                                              *)
(***************************************************************************)
Max(a, b) == IF a >= b THEN a ELSE b

\* A step that starts a run, and a step in which the run handles mailbox[run.idx].
SyncStarts == run.phase # "running" /\ run'.phase = "running"
SyncHandles == run.phase = "running" /\ run'.phase = "running" /\ run'.idx = run.idx + 1

\* C8: no step lowers or clears an account's last_sync_time, and a step that
\* saves a record r leaves it at the maximum of its previous value and
\* r.transaction_time (so a record older than the stored value leaves it alone).
C8_LastSyncMonotonic ==
    [][ /\ \A a \in DOMAIN accounts :
              /\ a \in DOMAIN accounts'
              /\ accounts[a].last_sync_time # None =>
                    /\ accounts'[a].last_sync_time # None
                    /\ accounts'[a].last_sync_time[1] >= accounts[a].last_sync_time[1]
        /\ (Len(savedLog') = Len(savedLog) + 1 /\ ret' = <<TRUE, "saved">>) =>
              LET r == Last(savedLog')
                  prev == get_last_sync_time(accounts, r.account_id)
              IN  accounts'[r.account_id].last_sync_time =
                    Some(IF prev = None THEN r.transaction_time
                         ELSE Max(prev[1], r.transaction_time)) ]_vars

\* A record older than the stored last_sync_time was saved and left it alone.
C8_Witness ==
    /\ ret = <<TRUE, "saved">>
    /\ Len(savedLog) = 2
    /\ savedLog[1].account_id = savedLog[2].account_id
    /\ savedLog[2].transaction_time < savedLog[1].transaction_time
    /\ accounts[savedLog[1].account_id].last_sync_time = Some(savedLog[1].transaction_time)

\* C9: when a run has been interrupted between records, a later run over the
\* same mailbox that completes without errors has saved every record the
\* interrupted run had not reached and that lies in the window the later run
\* was asked for, whatever the order of the messages.
C9_ResumeCoversTail ==
    (run.phase = "done" /\ ~run.dry_run /\ run.errors = << >>) =>
        \A r \in pending :
            (/\ r.transaction_time >= run.end_time - run.days
             /\ r.transaction_time <= run.end_time) => Stored(r)

\* The accounts whose last_sync_time a run with this configuration resumes from.
Resumed(account_id) == IF account_id # None THEN {account_id[1]} ELSE DOMAIN accounts

\* The row counts and balances a duplicate must leave alone.
BalancesUnchanged ==
    /\ transactions' = transactions
    /\ DOMAIN accounts' = DOMAIN accounts
    /\ \A a \in DOMAIN accounts : accounts'[a].current_balance = accounts[a].current_balance

\* A record dated before the window is not passed to the store.
C10_BeforeWindowSkipped ==
    (SyncHandles /\ mailbox[run.idx].transaction_time < run.start_time) =>
        /\ UNCHANGED <<transactions, accounts, savedLog>>
        /\ run'.new = run.new /\ run'.duplicate = run.duplicate /\ run'.errors = run.errors

\* C10 (as stated): once a run has advanced an account's last_sync_time to T,
\* the next run starts its window at T, passes no record dated before T to the
\* store, and a record dated exactly T is processed and reported as duplicate,
\* the row count and the balances staying as they were.
C10_Original ==
    [][ /\ SyncStarts =>
              \A a \in Resumed(cfgAccount) \cap DOMAIN accounts :
                  accounts[a].last_sync_time # None =>
                      run'.start_time = accounts[a].last_sync_time[1]
        /\ C10_BeforeWindowSkipped
        /\ (/\ SyncHandles /\ ~run.dry_run
             /\ AccountFilter(mailbox[run.idx], cfgAccount)
             /\ mailbox[run.idx].transaction_time = run.start_time
             /\ get_last_sync_time(accounts, mailbox[run.idx].account_id)
                    = Some(run.start_time)) =>
                /\ run'.duplicate = run.duplicate + 1
                /\ BalancesUnchanged ]_vars

\* C10 (amended): when the run is configured with that account's id, or with
\* no account id while the store holds exactly one account, the next run
\* starts its window at the account's last_sync_time T; it passes no record
\* dated before T to the store; and an already stored record dated exactly T is
\* still processed and reported as duplicate, the row count and the balances
\* staying as they were.
C10_ResumeAtLastSync ==
    [][ /\ SyncStarts =>
              \A a \in DOMAIN accounts :
                  (/\ accounts[a].last_sync_time # None
                   /\ \/ cfgAccount = Some(a)
                      \/ cfgAccount = None /\ DOMAIN accounts = {a}) =>
                      run'.start_time = accounts[a].last_sync_time[1]
        /\ C10_BeforeWindowSkipped
        /\ (/\ SyncHandles /\ ~run.dry_run
             /\ AccountFilter(mailbox[run.idx], cfgAccount)
             /\ mailbox[run.idx].transaction_time = run.start_time
             /\ Stored(mailbox[run.idx])) =>
                /\ run'.duplicate = run.duplicate + 1
                /\ ret' = <<FALSE, "duplicate">>
                /\ BalancesUnchanged ]_vars

\* A run that resumed at the configured account's last_sync_time has just
\* reported the record dated exactly that time as a duplicate, after skipping
\* an older one.
C10_Witness ==
    /\ run.phase = "running" /\ ~run.dry_run
    /\ cfgAccount = Some("8551")
    /\ run.idx = 3 /\ run.duplicate = 1 /\ run.new = 0
    /\ mailbox[1].transaction_time < run.start_time
    /\ mailbox[2].transaction_time = run.start_time
    /\ mailbox[1].account_id = "8551" /\ mailbox[2].account_id = "8551"
    /\ accounts["8551"].last_sync_time = Some(run.start_time)
    /\ Len(transactions) = 2

(***************************************************************************)
(* Properties of concurrent saves                                          *)
(***************************************************************************)
\* C7: a save whose INSERT hit the uniqueness violation on transaction_id
\* returns (False, "duplicate"), as the pre-check does, and the sync run
\* counts it as a duplicate and adds nothing to its error list.
C7_RacingDuplicate ==
    \A p \in ProcIds :
        procs[p].exc = Some("IntegrityError") =>
            /\ procs[p].pc = "returned" => procs[p].ret = <<FALSE, "duplicate">>
            /\ procs[p].pc = "idle" =>
                  /\ procs[p].errors = << >>
                  /\ procs[p].duplicate = 1

\* C11: when both workers have returned from their saves and no saved record
\* carried an explicit balance, the account's current_balance is the initial
\* balance (0) plus the signed amount of every saved record: no interleaving
\* of two saves loses an update.
C11_NoLostUpdate ==
    (/\ \A p \in ProcIds : procs[p].pc = "idle"
     /\ savedLog # << >>
     /\ \A i \in 1 .. Len(savedLog) : savedLog[i].balance = None) =>
        /\ "8551" \in DOMAIN accounts
        /\ accounts["8551"].current_balance = Some(Reconciled(savedLog, "8551"))

(***************************************************************************)
(* Properties of the scheduler                                             *)
(***************************************************************************)
\* The threads inside the task's function.
Executing == { t \in ThreadIds : threads[t].pc = "func" }

\* C12: at most one execution of the task's function is in progress at any
\* time, and a check made while the task is running finds nothing to run
\* (the trigger is skipped), whichever threads run the scheduler loop.
C12_NoOverlap ==
    [][ /\ Cardinality({ t \in ThreadIds : threads'[t].pc = "func" }) <= 1
        /\ \A t \in ThreadIds :
              (threads[t].pc = "check" /\ threads'[t].pc # "check" /\ Executing # {}) =>
                  threads'[t].pc = "sleep" ]_vars

(***************************************************************************)
(* Properties of the order of saves                                        *)
(***************************************************************************)
\* The accounts after saving r1 and then r2 on the present store.
SavedInOrder(r1, r2) ==
    LET one == SaveOutcome(transactions, accounts, savedLog, r1, "none")
    IN  SaveOutcome(one.transactions, one.accounts, one.log, r2, "none").accounts

\* C13: when every saved record carries an explicit balance, saving two further
\* distinct records with explicit balances leaves the account's
\* current_balance the same in either order.
C13_OrderIrrelevant ==
    (\A i \in 1 .. Len(savedLog) : savedLog[i].balance # None) =>
        \A r1, r2 \in StoreRecords :
            (/\ r1.balance # None /\ r2.balance # None
             /\ r1 # r2 /\ ~Stored(r1) /\ ~Stored(r2)) =>
                SavedInOrder(r1, r2)[r1.account_id].current_balance
                    = SavedInOrder(r2, r1)[r1.account_id].current_balance

\* C14: the records a sync run has saved (none of them carries an explicit
\* balance in SpecSync) were applied to each account's balance in
\* non-decreasing transaction_time order, whatever the order of the mailbox.
C14_AppliedInTimeOrder ==
    (run.phase # "idle" /\ ~run.dry_run) =>
        \A i, j \in (Len(savedLog) - run.new + 1) .. Len(savedLog) :
            (/\ i < j
             /\ savedLog[i].account_id = savedLog[j].account_id
             /\ savedLog[i].balance = None /\ savedLog[j].balance = None) =>
                savedLog[i].transaction_time <= savedLog[j].transaction_time

(***************************************************************************)
(* Properties of the fingerprint                                           *)
(***************************************************************************)
CounterpartyName(r) == IF r.counterparty = None THEN "unknown" ELSE r.counterparty[1]

\* The six values the fingerprint is said to depend on are equal.
SameKey(r1, r2) ==
    /\ r1.source_type = r2.source_type
    /\ r1.source_account = r2.source_account
    /\ r1.transaction_time = r2.transaction_time
    /\ r1.account_id = r2.account_id
    /\ DecimalEq(r1.amount, r2.amount)
    /\ CounterpartyName(r1) = CounterpartyName(r2)

\* C15: two records equal on source_type, source_account, transaction_time,
\* account_id, amount and counterparty name (or "unknown") have the same
\* fingerprint, whatever their raw_id, notes, metadata, balance, channel, tags
\* and counterparty type and category.
C15_FingerprintOfKey ==
    (result # None /\ SameKey(given[1], given[2])) => result[1] = result[2]

(***************************************************************************)
(* Properties of the parser                                                *)
(***************************************************************************)
\* C16: a message that parses to a record at one instant parses to a record
\* with the same fingerprint at any other instant, whatever pattern matched
\* and whether or not its date is valid (so that saving both stores one row).
C16_ParseIsPure ==
    (result # None /\ result[1] # None) =>
        /\ result[2] # None
        /\ generate_transaction_id(result[1][1]) = generate_transaction_id(result[2][1])


(***************************************************************************)
(* Properties of the sync run under failures                               *)
(***************************************************************************)
\* The records of the mailbox the adapter yields to the run.
YieldedCount ==
    Cardinality({ i \in 1 .. Len(mailbox) :
                    Yielded(mailbox[i], cfgAccount, run.start_time, run.end_time) })

\* C17: a non-dry sync run that meets failing saves still comes to its end,
\* and there new + duplicate + len(errors) is the number of records the
\* adapter yielded.
C17_TallyIsYielded ==
    (run.phase = "done" /\ ~run.dry_run) =>
        run.new + run.duplicate + Len(run.errors) = YieldedCount

\* C18: a rejected mailbox login ends the run with an authentication error
\* that is not retryable, and nothing is saved.
C18_AuthenticationErrorSurfaces ==
    [][ \A login \in RejectedLogins :
          SyncConnectFails(login) =>
              /\ run'.raised = Some(AuthenticationError)
              /\ ~run'.raised[1].retryable
              /\ run'.raised # Some(ConnectionError)
              /\ transactions' = transactions
              /\ savedLog' = savedLog ]_vars

(***************************************************************************)
(* Properties of the parser's choice of pattern                            *)
(***************************************************************************)
\* The order of precedence of the notification patterns.
PriorityOrder ==
    <<"quick_pay", "merchant_consumption", "consumption", "income_with_balance", "income",
      "transfer_out">>

\* The places in PriorityOrder of the patterns found in the text.
Matching(text) ==
    { i \in 1 .. Len(PriorityOrder) : search(patterns[PriorityOrder[i]], text) # None }

\* C19: parse returns the record built from the first pattern of the order
\* of precedence that matches the normalized text, and none when no pattern
\* matches; a text with both a quick-pay and a generic consumption match
\* gives the quick-pay record, with a counterparty.
C19_FirstMatchWins ==
    result # None =>
        LET text == _clean_text(given.body)
            found == Matching(text)
        IN  IF found = {}
            THEN result[1] = None
            ELSE LET first == CHOOSE i \in found : \A j \in found : i <= j
                     name == PriorityOrder[first]
                 IN  /\ result[1] # None
                     /\ result[1][1].pattern_matched = name
                     /\ result[1][1] =
                          _build_transaction(search(patterns[name], text)[1], name,
                                             result[1][1].transaction_type, text,
                                             given.sender, given.clocks[1])
                     /\ ({1, 3} \subseteq found) =>
                            /\ result[1][1].pattern_matched = "quick_pay"
                            /\ result[1][1].counterparty # None

\* C19 witness: a text in which both the quick-pay and the generic
\* consumption pattern match has been parsed to the quick-pay record.
C19_Witness ==
    /\ result # None
    /\ {1, 3} \subseteq Matching(_clean_text(given.body))
    /\ result[1] # None
    /\ result[1][1].pattern_matched = "quick_pay"
    /\ result[1][1].counterparty # None

(***************************************************************************)
(* Properties of the quick-pay notification                                *)
(***************************************************************************)
\* The dates and the provider-channel-merchant composites of the quick-pay
\* notifications among the bodies.
QuickPayDates == {StdDate, BadDate, LeapDate, EveDate}

QuickPayComposites == { <<"tenpay", "wechat_pay", "shop">> }

\* C20: a quick-pay notification for account 8551 naming provider, channel
\* and merchant, of 3.00 with balance 100638.62, parses to a consumption of
\* account 8551 with that amount and balance, the merchant as the
\* counterparty's name and the channel as the channel's name.
C20_QuickPayParsed ==
    \A d \in QuickPayDates, names \in QuickPayComposites :
        (result # None /\ _clean_text(given.body) = QuickPay(d, names)) =>
            /\ result[1] # None
            /\ LET r == result[1][1]
               IN  /\ r.account_id = "8551"
                   /\ r.transaction_type = "consumption"
                   /\ r.amount = DecimalOf["3.00"]
                   /\ r.counterparty # None
                   /\ r.counterparty[1] = <<names[3]>>
                   /\ r.channel # None
                   /\ r.channel[1] = Some(<<names[2]>>)
                   /\ r.balance = Some(DecimalOf["100638.62"])

\* C20 witness: the notification of the test, dated 02-21 19:25, has been
\* parsed to a record of merchant "shop".
C20_Witness ==
    /\ result # None
    /\ given.body = << QuickPay(StdDate, <<"tenpay", "wechat_pay", "shop">>) >>
    /\ result[1] # None
    /\ result[1][1].counterparty = << <<"shop">>, Some("merchant"), None >>
    /\ result[1][1].amount = DecimalOf["3.00"]

(***************************************************************************)
(* Properties of the receipt notification                                  *)
(***************************************************************************)
\* The one-line receipt notifications among the bodies: 收款3.00元，
\* 余额100638.62，备注： and a remark.
Receipts ==
    { Receipt(StdDate, <<"tenpay", "payer", "wechat_withdraw">>),
      Receipt(StdDate, <<"alipay", "payer">>),
      Receipt(StdDate, <<"payer">>),
      Receipt(BadDate, <<"tenpay", "payer", "wechat_withdraw">>),
      Receipt(StdDate, <<"payer">>) \o << Kw("consume"), Num("3.00") >> }

\* C21: a receipt notification for account 8551 of 3.00 parses to an income
\* of account 8551 with amount 3.00, through the receipt pattern and no
\* consumption pattern, whatever its remark.
C21_ReceiptParsed ==
    (result # None /\ _clean_text(given.body) \in Receipts) =>
        /\ result[1] # None
        /\ result[1][1].account_id = "8551"
        /\ result[1][1].transaction_type = "income"
        /\ result[1][1].amount = DecimalOf["3.00"]
        /\ result[1][1].pattern_matched = "income_with_balance"

\* C21 witness: a receipt whose remark holds the word of the consumption
\* patterns has been parsed to an income.
C21_Witness ==
    /\ result # None
    /\ given.body = << Receipt(StdDate, <<"payer">>) \o << Kw("consume"), Num("3.00") >> >>
    /\ result[1] # None
    /\ result[1][1].transaction_type = "income"
    /\ result[1][1].amount = DecimalOf["3.00"]

(***************************************************************************)
(* Properties of parse on texts without a notification                     *)
(***************************************************************************)
\* A body of lines none of which is a notification.
NoNotification(body) ==
    \A i \in 1 .. Len(body) : body[i] \in {Greeting, <<Sp>>}

\* C22: for the empty body, for a body without a notification, and for
\* every body in whose cleaned text no pattern is found, parse returns no
\* record, at either instant.
C22_NoMatchNoRecord ==
    (/\ result # None
     /\ \/ given.body = << >>
        \/ NoNotification(given.body)
        \/ Matching(_clean_text(given.body)) = {}) =>
        /\ result[1] = None
        /\ result[2] = None

\* C22 witness: a body of a greeting and a blank line has been parsed
\* to no record.
C22_Witness ==
    /\ result # None
    /\ given.body = << Greeting, <<Sp>> >>
    /\ result[1] = None

(***************************************************************************)
(* Properties of parse when the extraction of a field fails                *)
(***************************************************************************)
\* The date groups of a match do not form a date: datetime() at line 216
\* raises ValueError.
DateFails(groups, pattern_name, clock) ==
    /\ pattern_name \in AccountPatterns
    /\ LET month == IntOf[groups[2][1][2]]
           year == IF month > clock[2] THEN clock[1] - 1 ELSE clock[1]
       IN  ~ValidDate(year, month, IntOf[groups[3][1][2]], IntOf[groups[4][1][2]],
                      IntOf[groups[5][1][2]])

\* C23: when a pattern is found but its month, day, hour and minute do not
\* form a date, parse returns no record built from that pattern (it goes on
\* to the next pattern, and returns no record when none is left), so no
\* record carries the current time in place of the date.
C23_NoSubstitutedValue ==
    result # None =>
        LET text == _clean_text(given.body)
        IN  \A i \in Matching(text) :
                DateFails(search(patterns[PriorityOrder[i]], text)[1], PriorityOrder[i],
                          given.clocks[1]) =>
                    \/ result[1] = None
                    \/ result[1][1].pattern_matched # PriorityOrder[i]

(***************************************************************************)
(* The in-domain check, CMBEmailParser.is_cmb_email                        *)
(*                                                                         *)
(* Keywords of the subject: "zhaoshang_bank" 招商银行, "zhaohang" 招行,    *)
(* "CMB", "account_notice" 动账通知, "consume_reminder" 消费提醒,          *)
(* "income_notice" 入账通知, "account_change" 账户变动, "pay_reminder"     *)
(* 支付提醒.                                                               *)
(***************************************************************************)
cmb_keywords ==
    {"zhaoshang_bank", "zhaohang", "CMB", "account_notice", "consume_reminder",
     "income_notice", "account_change", "pay_reminder"}

cmb_domains == {"cmbchina.com", "cmb.com"}

\* The words a subject is made of, and the domain of a sender's address.
WordsOf(subject) ==
    IF subject = "CMB notice" THEN {"CMB", "notice"} ELSE {subject}

DomainOf(from_addr) ==
    IF from_addr = "notify@cmbchina.com" THEN "cmbchina.com" ELSE "example.com"

\* cmb_email_parser.py 409-434
is_cmb_email(subject, from_addr) ==
    \/ WordsOf(subject) \cap cmb_keywords # {}
    \/ from_addr # "" /\ DomainOf(from_addr) \in cmb_domains

\* C24: for a message whose subject has none of the bank's keywords and
\* whose sender has none of the bank's domains, parse returns no record,
\* whatever the body.
C24_OutOfDomainRejected ==
    (result # None /\ ~is_cmb_email(given.subject, given.sender)) =>
        /\ result[1] = None
        /\ result[2] = None

(***************************************************************************)
(* Properties of the composite descriptions                                *)
(***************************************************************************)
\* The composites of the quick-pay notifications and of the receipts'
\* remarks among the bodies, of one to four parts.
QuickPayParts ==
    { <<"shop">>, <<"tenpay", "shop">>, <<"tenpay", "wechat_pay", "shop">>,
      <<"tenpay", "wechat_pay", "shop", "branch">> }

RemarkParts ==
    { <<"payer">>, <<"alipay", "payer">>, <<"tenpay", "payer", "wechat_withdraw">> }

\* The string s is, or is part of, an optional text field.
Within(s, field) ==
    field # None /\ \E i \in 1 .. Len(field[1]) : field[1][i] = s

\* The part is carried by the counterparty's name or by the channel's name
\* or provider.
Carried(r, part) ==
    \/ r.counterparty # None /\ Within(part, Some(r.counterparty[1]))
    \/ r.channel # None /\ (Within(part, r.channel[1]) \/ Within(part, r.channel[2]))

\* C25: for a quick-pay composite or a receipt's remark of parts p1 .. pn,
\* the last part pn is carried by one of the extracted fields, and a
\* quick-pay composite of one part leaves the channel's name unset.
C25_LastPartKept ==
    result # None =>
        LET text == _clean_text(given.body)
        IN  /\ \A names \in QuickPayParts :
                  text = QuickPay(StdDate, names) =>
                      /\ result[1] # None
                      /\ Carried(result[1][1], names[Len(names)])
                      /\ Len(names) = 1 => result[1][1].channel[1] = None
            /\ \A names \in RemarkParts :
                  text = Receipt(StdDate, names) =>
                      /\ result[1] # None
                      /\ Carried(result[1][1], names[Len(names)])

(***************************************************************************)
(* Properties of the accounts' descriptive fields                          *)
(***************************************************************************)
\* Records of account 8551 with every combination of name and type hints.
HintRecords ==
    { RawTransaction("8551", t, <<"income", amt, None, n, y>>) :
        t \in StoreTimes, amt \in {3, 10},
        n \in {None, Some("card"), Some("savings")},
        y \in {None, Some("debit"), Some("credit")} }

\* One more save of r leaves a name and a type that are set as they are.
HintsKept(r) ==
    \A fail \in FailPoints :
        LET out == CallOn(r, fail)
        IN  r.account_id \in DOMAIN accounts =>
                /\ accounts[r.account_id].account_name # None =>
                      out.accounts[r.account_id].account_name
                          = accounts[r.account_id].account_name
                /\ accounts[r.account_id].account_type # None =>
                      out.accounts[r.account_id].account_type
                          = accounts[r.account_id].account_type

\* One more save of r creates the account with r's hints, or fills the
\* fields that are unset with r's hints.
HintsTaken(r) ==
    LET out == CallOn(r, "none")
    IN  IF r.account_id \notin DOMAIN accounts
        THEN /\ out.ret = <<TRUE, "saved">>
             /\ out.accounts[r.account_id].account_name = r.account_name
             /\ out.accounts[r.account_id].account_type = r.account_type
        ELSE /\ (accounts[r.account_id].account_name = None /\ r.account_name # None) =>
                    out.accounts[r.account_id].account_name = r.account_name
             /\ (accounts[r.account_id].account_type = None /\ r.account_type # None) =>
                    out.accounts[r.account_id].account_type = r.account_type

\* C26 (as stated): over any saves, a name or type that is set never
\* changes, a save for an unknown account creates it with the record's
\* hints, and a field that is unset is filled by the first hint that
\* arrives, in whatever save it arrives.
C26_Original ==
    \A r \in HintRecords : HintsKept(r) /\ HintsTaken(r)

\* C26 (amended): over any saves, a name or type that is set never changes;
\* a save of a record that is not a duplicate and meets no storage failure
\* creates an unknown account with the record's hints and fills a field
\* that is unset with the record's hint.
C26_FirstWriteWins ==
    \A r \in HintRecords : HintsKept(r) /\ (~Stored(r) => HintsTaken(r))

\* C26 witness: the account was created without hints by a first save, and
\* a second save has filled its name and type.
C26_Witness ==
    /\ ret = <<TRUE, "saved">>
    /\ Len(savedLog) = 2
    /\ savedLog[1].account_name = None
    /\ savedLog[2].account_name = Some("card")
    /\ accounts["8551"].account_name = Some("card")
    /\ accounts["8551"].account_type = Some("debit")

(***************************************************************************)
(* Properties of the stored amount                                         *)
(***************************************************************************)
\* Records whose amount is of either sign: RawTransaction takes any Decimal.
SignedRecords ==
    { RawTransaction("8551", t, <<ty, amt, None, None, None>>) :
        t \in StoreTimes, ty \in {"consumption", "income"}, amt \in {-3, 3} }

\* C27: whatever record is passed to save_transaction, every row of the
\* transactions table has an amount that is not negative, and a saved
\* consumption never raises the balance nor a saved income lowers it.
C27_AmountNonNegative ==
    \A r \in SignedRecords :
        LET out == CallOn(r, "none")
        IN  /\ \A i \in 1 .. Len(out.transactions) : out.transactions[i].amount >= 0
            /\ out.ret = <<TRUE, "saved">> =>
                  IF r.transaction_type = "consumption"
                  THEN ReadCurrentBalance(out.accounts, r.account_id)
                           <= ReadCurrentBalance(accounts, r.account_id)
                  ELSE ReadCurrentBalance(out.accounts, r.account_id)
                           >= ReadCurrentBalance(accounts, r.account_id)

(***************************************************************************)
(* Properties of the dry run                                               *)
(***************************************************************************)
\* C28: from its start to its end a sync run with dry_run = true leaves the
\* transactions table and every account row, current_balance and
\* last_sync_time included, as they were, whatever the mailbox holds.
C28_DryRunPersistsNothing ==
    [][ (run'.phase # "idle" /\ run'.dry_run) =>
            /\ transactions' = transactions
            /\ accounts' = accounts ]_vars

\* C28 witness: a dry run over two fetched records has ended, and the store
\* holds the one row a run before it had saved.
C28_Witness ==
    /\ run.phase = "done"
    /\ run.dry_run
    /\ run.new = 2
    /\ Len(transactions) = 1

(***************************************************************************)
(* Properties of the types without a direction                             *)
(***************************************************************************)
\* C29: a newly saved record of a type that is neither debit-like nor
\* credit-like, without an explicit balance, is stored and advances
\* last_sync_time, and leaves current_balance as it was: unknown when it
\* was unknown or when the account is new.
C29_OtherLeavesBalance ==
    \A r \in TypedRecords({None}) :
        (r.transaction_type \notin DebitTypes \cup CreditTypes /\ ~Stored(r)) =>
            LET out == CallOn(r, "none")
                prev == get_last_sync_time(accounts, r.account_id)
            IN  /\ out.ret = <<TRUE, "saved">>
                /\ Len(out.transactions) = Len(transactions) + 1
                /\ Last(out.transactions).transaction_type = r.transaction_type
                /\ out.accounts[r.account_id].last_sync_time =
                      Some(IF prev = None THEN r.transaction_time
                           ELSE Max(prev[1], r.transaction_time))
                /\ out.accounts[r.account_id].current_balance =
                      IF r.account_id \in DOMAIN accounts
                      THEN accounts[r.account_id].current_balance
                      ELSE None

\* C29 witness: a record of type other has been saved as the first record
\* of its account, whose balance is unknown and whose last_sync_time is set.
C29_Witness ==
    /\ ret = <<TRUE, "saved">>
    /\ Len(savedLog) = 1
    /\ savedLog[1].transaction_type = "other"
    /\ savedLog[1].balance = None
    /\ accounts["8551"].current_balance = None
    /\ accounts["8551"].last_sync_time = Some(savedLog[1].transaction_time)

(***************************************************************************)
(* Properties of a task whose function raises                              *)
(***************************************************************************)
\* C30: when the function of a scheduled task raises, the execution adds
\* nothing to run_count; its finally resets is_running and sets next_run to
\* last_run + interval_minutes; the scheduler stays started and the thread
\* goes on with the tasks still due in its check cycle.
C30_RaisingTaskHandled ==
    [][ \A t \in ThreadIds :
          /\ (threads[t].pc = "func" /\ threads'[t].pc = "finally" /\ threads'[t].raised) =>
                task'[threads[t].cur].run_count = task[threads[t].cur].run_count
          /\ (threads[t].pc = "finally" /\ threads'[t].pc # "finally" /\ threads[t].raised) =>
                LET k == threads[t].cur
                IN  /\ ~task'[k].is_running
                    /\ task'[k].next_run =
                          Some(task'[k].last_run[1] + task'[k].interval_minutes)
                    /\ task'[k].run_count = task[k].run_count
                    /\ _running' = _running
                    /\ threads'[t].todo = threads[t].todo
                    /\ threads'[t].pc =
                          IF threads[t].todo = << >> THEN "sleep" ELSE "execute" ]_vars

\* C30 witness: in one check cycle at time 1 the function of qqmail_sync
\* raised, and report, due in the same cycle, was executed after it.
C30_Witness ==
    /\ now = 1
    /\ task["qqmail_sync"].run_count = 0
    /\ task["qqmail_sync"].last_run = Some(1)
    /\ ~task["qqmail_sync"].is_running
    /\ task["qqmail_sync"].next_run = Some(1 + task["qqmail_sync"].interval_minutes)
    /\ task["report"].run_count = 1
    /\ task["report"].last_run = Some(1)
    /\ threads["main"].pc = "sleep"
    /\ threads["main"].raised = FALSE
    /\ threads["background"].pc = "check"

====
